---- MODULE Spec2Model ----
(***************************************************************************)
(* Credential lifecycle and discovery core of tokentoss:                   *)
(*   AuthManager (auth_manager.py), the token store (storage.py), the      *)
(*   module-level tokentoss.CREDENTIALS slot (__init__.py) and IAPClient   *)
(*   (client.py).                                                          *)
(*                                                                         *)
(* One process, one thread.  Every public operation is one action; what    *)
(* the outside world answers (token endpoint, IAP service, disk) is an     *)
(* input of the action.  The variable `last` records what the most recent  *)
(* call did and returned, so that properties about a call can be stated.   *)
(***************************************************************************)
EXTENDS Integers, Sequences, FiniteSets, TLC

(* ----------------------------- bounds ---------------------------------- *)
\* clock resolution: ticks per second (the clock has sub-second precision)
TicksPerSecond == 2
\* whole seconds of wall-clock time that pass in one Tick step (one more
\* clock tick passes with them, so the sub-second part of the clock varies)
TickSeconds == 1800
\* the clock stops advancing at this many seconds
MaxTime == 1800
\* number of calls (constructions, engine operations, requests) per behaviour
MaxCalls == 3
\* the short lifetime (seconds) some provider responses announce: it runs
\* out during one Tick step
ShortExpiresIn == TickSeconds

(* ------------------------ program constants ---------------------------- *)
\* data.get("expires_in", 3600)
DefaultExpiresIn == 3600
\* DEFAULT_SCOPES
DEFAULT_SCOPES == <<"openid", "email", "profile">>

(* ----------------------------- values ---------------------------------- *)
\* Python None for string-valued slots
None == "None"
\* Python None for object-valued slots: <<>> is None, <<x>> is the object x
Nothing == <<>>
Some(x) == <<x>>
\* the element of a one-element set; `The({f(x) : x \in {e}})` is f(e) with
\* e evaluated once
The(S) == CHOOSE x \in S : TRUE
\* truthiness of an optional string (`if token:`)
Truthy(s) == s # None /\ s # ""

\* ID tokens are "h.A.s", "h.B.s", "h.N.s" (JWTs) and "opaque" (not a JWT)
\* str.split(".") on the ID-token strings of the model
Split(tok) ==
  CASE tok = "h.A.s" -> <<"h", "A", "s">>
    [] tok = "h.B.s" -> <<"h", "B", "s">>
    [] tok = "h.N.s" -> <<"h", "N", "s">>
    [] OTHER -> <<tok>>

\* json.loads(base64.urlsafe_b64decode(payload)).get("email") for the
\* payload segments of the model: "A" and "B" carry an email claim, "N" is a
\* claims object without one, anything else does not decode ("error")
PayloadEmail(payload) ==
  CASE payload = "A" -> "alice@example.com"
    [] payload = "B" -> "bob@example.com"
    [] payload = "N" -> None
    [] OTHER -> "error"

\* str.split() on a scope string / " ".join on a scope list
SplitScope(s) ==
  CASE s = "openid email" -> <<"openid", "email">>
    [] s = "openid email profile" -> <<"openid", "email", "profile">>
    [] OTHER -> <<s>>
JoinScope(l) ==
  CASE l = <<"openid", "email">> -> "openid email"
    [] l = <<"openid", "email", "profile">> -> "openid email profile"
    [] OTHER -> "?"

(* ------------------------- TokenData (storage.py) ---------------------- *)
TokenData(at, idt, rt, exp, sc, em) ==
  [access_token |-> at, id_token |-> idt, refresh_token |-> rt,
   expiry |-> exp, scopes |-> sc, user_email |-> em]

\* the record is still valid at the instant of its expiry
MutIsExpiredStrictlyAfter(td, t) == t > td.expiry * TicksPerSecond

\* TokenData.is_expired: datetime.now(utc) >= expiry_datetime.  expiry is an
\* ISO string of whole seconds; the clock `t` is in ticks.
is_expired(td, t) == t >= td.expiry * TicksPerSecond

(* --------------------- token endpoint answers -------------------------- *)
\* status 0 stands for a transport failure (requests.RequestException)
Resp(st, content, at, idt, rt, ei, sc, err, desc) ==
  [status |-> st, content |-> content, access_token |-> at, id_token |-> idt,
   refresh_token |-> rt, expires_in |-> ei, scope |-> sc,
   error |-> err, error_description |-> desc]
Ok(at, idt, rt, ei, sc) == Resp(200, "json", at, idt, rt, ei, sc, None, None)
Err(content, err, desc) == Resp(400, content, None, None, None, <<>>, None, err, desc)
NetFail == Resp(0, "none", None, None, None, <<>>, None, None, None)

OkResponses ==
  { Ok("at1", "h.A.s", "rt1", <<>>, None),
    Ok("at2", "h.B.s", "rt2", <<ShortExpiresIn>>, "openid email"),
    Ok("at2", None, None, <<ShortExpiresIn>>, None),
    Ok("at1", "h.N.s", None, <<>>, None),
    Ok("at2", "opaque", "rt2", <<>>, None),
    Ok(None, "h.A.s", "rt1", <<>>, None) }
ErrResponses ==
  { Err("json", "invalid_grant", None),
    Err("json", "invalid_grant", "Bad Request"),
    Err("empty", None, None),
    Err("notjson", None, None) }
Responses == OkResponses \cup ErrResponses \cup {NetFail}

\* outcomes of FileStorage.save: written, OSError before the file is touched,
\* OSError after the file was truncated (the file no longer parses)
SaveOutcomes == {"ok", "fail_untouched", "fail_partial"}

(* ------------------------------ state ---------------------------------- *)
VARIABLES
  now,            \* wall clock, in ticks
  constructed,    \* an AuthManager exists in the process
  token_data,     \* AuthManager._token_data    (Nothing or Some(TokenData))
  credentials,    \* AuthManager._credentials   (Nothing or Some(Credentials))
  last_error,     \* AuthManager.last_error     (None or the exception class)
  storage,        \* the token file's record    (Nothing or Some(TokenData))
  fileBad,        \* the token file exists but does not parse
  CREDENTIALS,    \* tokentoss.CREDENTIALS      (Nothing or Some(Credentials))
  aliased,        \* CREDENTIALS is the very object held in _credentials
  calls,          \* number of calls made so far
  others,         \* an AuthManager constructed earlier is still in use
  mem,            \* MemoryStorage._tokens of a store used on its own
  file,           \* the file of a FileStorage used on its own:
                  \*   Nothing, or Some([doc, mode])
  saved,          \* per store variant, the record last saved with no clear
                  \*   since (history)
  config_file,    \* the file at the standard client_secrets.json location:
                  \*   Nothing, or Some([doc, mode])
  widget,         \* the GoogleAuthWidget and its CallbackServer object
                  \*   (Nothing before it is constructed)
  httpd,          \* the HTTPServer of the callback server and the request
                  \*   its handler thread is serving
  exchanges,      \* the arguments of every exchange_code call the widget
                  \*   made and whether it returned (history)
  last            \* what the most recent call did

vars == <<now, constructed, token_data, credentials, last_error, storage,
          fileBad, CREDENTIALS, aliased, calls, others, mem, file, saved,
          config_file, widget, httpd, exchanges, last>>

\* the stores used on their own, which the engine and the client leave alone
storeVars == <<mem, file, saved>>

\* the installed client descriptor and the widget, which the engine, the
\* client and the stores leave alone
uiVars == <<config_file, widget, httpd, exchanges>>

\* the engine, the handle and the engine's token file
engineVars == <<now, constructed, token_data, credentials, last_error,
                storage, fileBad, CREDENTIALS, aliased, others>>

\* the mutable part of the process as one value, for composing operations
State == [token_data |-> token_data, credentials |-> credentials,
          last_error |-> last_error, storage |-> storage, fileBad |-> fileBad,
          CREDENTIALS |-> CREDENTIALS, aliased |-> aliased]

(* ------------------- the token file (storage.py) ----------------------- *)
\* FileStorage.save(tokens) with the disk's answer `outcome`
\* (returns the new state; "ok" iff no StorageError)
save(s, td, outcome) ==
  CASE outcome = "ok" -> [s EXCEPT !.storage = Some(td), !.fileBad = FALSE]
    [] outcome = "fail_partial" -> [s EXCEPT !.storage = Nothing, !.fileBad = TRUE]
    [] OTHER -> s

\* FileStorage.load(): "raise" (StorageError), or the record, or Nothing
load(s) == IF s.fileBad THEN "raise" ELSE "return"

\* FileStorage.clear(): unlink the file if it exists
clear_storage(s) == [s EXCEPT !.storage = Nothing, !.fileBad = FALSE]

(* ----------------------- AuthManager (auth_manager.py) ----------------- *)
\* _create_credentials: a new google Credentials object; no expiry is passed
create_credentials(td) ==
  [token |-> td.access_token, refresh_token |-> td.refresh_token,
   id_token |-> td.id_token, expiry |-> Nothing, scopes |-> td.scopes]

\* the slot is written only while it is empty (first writer wins)
MutSetModuleCredentialsKeepsFirst(s) ==
  IF s.CREDENTIALS # Nothing THEN s
  ELSE [s EXCEPT !.CREDENTIALS = s.credentials,
                 !.aliased = (s.credentials # Nothing)]

\* _set_module_credentials: tokentoss.CREDENTIALS = self._credentials
set_module_credentials(s) ==
  [s EXCEPT !.CREDENTIALS = s.credentials, !.aliased = (s.credentials # Nothing)]

\* the header segment is decoded instead of the payload segment
MutExtractEmailFromHeader(idt) ==
  IF ~Truthy(idt) THEN None
  ELSE LET parts == Split(idt) IN
       IF Len(parts) # 3 THEN None
       ELSE LET email == PayloadEmail(parts[1]) IN
            IF email = "error" THEN None ELSE email

\* _extract_email_from_id_token
extract_email_from_id_token(idt) ==
  IF ~Truthy(idt) THEN None
  ELSE LET parts == Split(idt) IN
       IF Len(parts) # 3 THEN None
       ELSE LET email == PayloadEmail(parts[2]) IN
            IF email = "error" THEN None ELSE email

\* expiry = (datetime.now(utc) + timedelta(seconds=expires_in))
\*            .replace(microsecond=0), kept as whole seconds (isoformat)
compute_expiry(t, resp) ==
  LET expires_in == IF resp.expires_in = <<>> THEN DefaultExpiresIn
                    ELSE resp.expires_in[1]
  IN (t + expires_in * TicksPerSecond) \div TicksPerSecond

\* the error code is preferred to the human-readable description
MutErrorMsgCodeFirst(resp) ==
  IF resp.content = "json" /\ resp.error # None THEN resp.error
  ELSE IF resp.content = "json" /\ resp.error_description # None
    THEN resp.error_description
  ELSE "Unknown error"

\* error_data.get("error_description", error_data.get("error", "Unknown error"))
\* for a non-200 answer whose body is JSON or empty
error_msg(resp) ==
  IF resp.content = "json" /\ resp.error_description # None
    THEN resp.error_description
  ELSE IF resp.content = "json" /\ resp.error # None THEN resp.error
  ELSE "Unknown error"

\* the result of a call: new state, exception class (None if it returned),
\* message of the exception raised (or caught inside the call), return
\* value, number of POSTs to the token endpoint
Result(s, exc, msg, ret, posts) ==
  [s |-> s, exc |-> exc, msg |-> msg, ret |-> ret, posts |-> posts]

\* the record exchange_code builds from a 200 answer
exchange_record(t, resp) ==
  TokenData(resp.access_token,
            IF resp.id_token = None THEN "" ELSE resp.id_token,
            IF resp.refresh_token = None THEN "" ELSE resp.refresh_token,
            compute_expiry(t, resp),
            SplitScope(IF resp.scope = None THEN JoinScope(DEFAULT_SCOPES)
                       ELSE resp.scope),
            extract_email_from_id_token(resp.id_token))

\* the except clauses of exchange_code: last_error = e, raise
\* TokenExchangeError
exchange_failed(s, e, msg) ==
  Result([s EXCEPT !.last_error = e], "TokenExchangeError", msg, Nothing, 1)

\* AuthManager.exchange_code
exchange_code(s, t, resp, outcome) ==
  IF resp.status = 0 THEN
    exchange_failed(s, "RequestException",
                    <<"Network error during token exchange: ", "RequestException">>)
  ELSE IF resp.status # 200 THEN
    IF resp.content = "notjson" THEN
      \* response.json() raises requests' JSONDecodeError, a RequestException
      exchange_failed(s, "JSONDecodeError",
                      <<"Network error during token exchange: ", "JSONDecodeError">>)
    ELSE
      exchange_failed(s, "TokenExchangeError",
                      <<"Token exchange failed: ", error_msg(resp)>>)
  ELSE IF resp.access_token = None THEN
    exchange_failed(s, "KeyError", <<"Token exchange failed: ", "'access_token'">>)
  ELSE
    The({
      IF outcome # "ok" THEN
        exchange_failed(save(s1, s1.token_data[1], outcome), "StorageError",
                        <<"Token exchange failed: ", "StorageError">>)
      ELSE
        Result([set_module_credentials(save(s1, s1.token_data[1], outcome))
                  EXCEPT !.last_error = None],
               None, <<>>, s1.token_data, 1) :
      s1 \in {[s EXCEPT !.token_data = Some(exchange_record(t, resp)),
                        !.credentials =
                           Some(create_credentials(exchange_record(t, resp))),
                        !.aliased = FALSE]}})

\* the refresh token is taken from the answer as exchange_code takes it
MutRefreshRecordDropsRefreshToken(old, t, resp) ==
  LET email == extract_email_from_id_token(resp.id_token) IN
  TokenData(resp.access_token,
            IF resp.id_token = None THEN old.id_token ELSE resp.id_token,
            IF resp.refresh_token = None THEN "" ELSE resp.refresh_token,
            compute_expiry(t, resp),
            SplitScope(IF resp.scope = None THEN JoinScope(old.scopes)
                       ELSE resp.scope),
            IF ~Truthy(email) THEN old.user_email ELSE email)

\* the record refresh_tokens builds from a 200 answer and the prior record
refresh_record(old, t, resp) ==
  LET email == extract_email_from_id_token(resp.id_token) IN
  TokenData(resp.access_token,
            IF resp.id_token = None THEN old.id_token ELSE resp.id_token,
            IF resp.refresh_token = None THEN old.refresh_token
            ELSE resp.refresh_token,
            compute_expiry(t, resp),
            SplitScope(IF resp.scope = None THEN JoinScope(old.scopes)
                       ELSE resp.scope),
            IF ~Truthy(email) THEN old.user_email ELSE email)

\* only the presence of a record is checked
MutHasRefreshTokenRecordOnly(s) == s.token_data # Nothing

\* `if not self._token_data or not self._token_data.refresh_token` is false
has_refresh_token(s) ==
  s.token_data # Nothing /\ s.token_data[1].refresh_token # ""

\* a failed refresh logs the engine out
MutRefreshFailedLogsOut(s, e, msg) ==
  Result([s EXCEPT !.last_error = e, !.token_data = Nothing,
                   !.credentials = Nothing, !.aliased = FALSE],
         "TokenRefreshError", msg, Nothing, 1)

\* the except clauses of refresh_tokens: last_error = e, raise
\* TokenRefreshError
refresh_failed(s, e, msg) ==
  Result([s EXCEPT !.last_error = e], "TokenRefreshError", msg, Nothing, 1)

\* AuthManager.refresh_tokens
refresh_tokens(s, t, resp, outcome) ==
  IF ~has_refresh_token(s) THEN
    Result(s, "TokenRefreshError", <<"No refresh token available", "">>,
           Nothing, 0)
  ELSE IF resp.status = 0 THEN
    refresh_failed(s, "RequestException",
                   <<"Network error during token refresh: ", "RequestException">>)
  ELSE IF resp.status # 200 THEN
    IF resp.content = "notjson" THEN
      refresh_failed(s, "JSONDecodeError",
                     <<"Network error during token refresh: ", "JSONDecodeError">>)
    ELSE
      refresh_failed(s, "TokenRefreshError",
                     <<"Token refresh failed: ", error_msg(resp)>>)
  ELSE IF resp.access_token = None THEN
    refresh_failed(s, "KeyError", <<"Token refresh failed: ", "'access_token'">>)
  ELSE
    The({
      IF outcome # "ok" THEN
        refresh_failed(save(s1, s1.token_data[1], outcome), "StorageError",
                       <<"Token refresh failed: ", "StorageError">>)
      ELSE
        Result([set_module_credentials(save(s1, s1.token_data[1], outcome))
                  EXCEPT !.last_error = None],
               None, <<>>, s1.token_data, 1) :
      s1 \in {[s EXCEPT !.token_data =
                           Some(refresh_record(s.token_data[1], t, resp)),
                        !.credentials =
                           Some(create_credentials(
                                  refresh_record(s.token_data[1], t, resp))),
                        !.aliased = FALSE]}})

\* AuthManager.credentials (property)
credentials_property(s, t, resp, outcome) ==
  IF s.credentials = Nothing THEN Result(s, None, <<>>, Nothing, 0)
  ELSE IF s.token_data # Nothing /\ is_expired(s.token_data[1], t) THEN
    \* except TokenRefreshError: pass
    The({Result(r.s, None, r.msg, r.s.credentials, r.posts) :
           r \in {refresh_tokens(s, t, resp, outcome)}})
  ELSE Result(s, None, <<>>, s.credentials, 0)

\* AuthManager.id_token (property)
id_token(s) == IF s.token_data # Nothing THEN s.token_data[1].id_token ELSE None

\* AuthManager.is_authenticated (property)
is_authenticated(s) == s.credentials # Nothing

\* the record is dropped only after storage.clear has returned
MutClearDropsRecordLast(s, unlink_ok) ==
  IF ~unlink_ok /\ (s.storage # Nothing \/ s.fileBad)
    THEN Result([s EXCEPT !.credentials = Nothing, !.aliased = FALSE],
                "StorageError", <<"Failed to delete token file", "">>,
                Nothing, 0)
  ELSE Result([clear_storage([s EXCEPT !.credentials = Nothing,
                                       !.token_data = Nothing,
                                       !.aliased = FALSE])
                 EXCEPT !.CREDENTIALS = Nothing],
              None, <<>>, Nothing, 0)

\* AuthManager.clear; unlink_ok: FileStorage.clear does not raise (it can
\* raise only when the file exists).  Returns a Result.
clear(s, unlink_ok) ==
  LET s1 == [s EXCEPT !.credentials = Nothing, !.token_data = Nothing,
                      !.aliased = FALSE]
  IN IF ~unlink_ok /\ (s.storage # Nothing \/ s.fileBad)
       THEN Result(s1, "StorageError", <<"Failed to delete token file", "">>,
                   Nothing, 0)
     ELSE Result([clear_storage(s1) EXCEPT !.CREDENTIALS = Nothing],
                 None, <<>>, Nothing, 0)

\* a load failure is swallowed without being recorded
MutLoadFromStorageDropsError(s) ==
  LET s0 == [s EXCEPT !.credentials = Nothing, !.token_data = Nothing,
                      !.last_error = None, !.aliased = FALSE]
  IN IF load(s0) = "raise" THEN s0
     ELSE IF s0.storage # Nothing THEN
       set_module_credentials(
         [s0 EXCEPT !.token_data = s0.storage,
                    !.credentials = Some(create_credentials(s0.storage[1]))])
     ELSE s0

\* AuthManager.clear called on another AuthManager of the process (one
\* constructed before the engine whose fields the state holds): its own
\* fields are emptied, the engine of the state keeps its own; the token file
\* and tokentoss.CREDENTIALS are shared
clear_other(s, unlink_ok) ==
  The({Result([r.s EXCEPT !.token_data = s.token_data,
                          !.credentials = s.credentials,
                          !.aliased = IF r.exc = None THEN FALSE ELSE s.aliased],
              r.exc, r.msg, r.ret, r.posts) :
         r \in {clear(s, unlink_ok)}})

\* AuthManager.__init__ / _load_from_storage, for a new engine
load_from_storage(s) ==
  LET s0 == [s EXCEPT !.credentials = Nothing, !.token_data = Nothing,
                      !.last_error = None, !.aliased = FALSE]
  IN IF load(s0) = "raise" THEN [s0 EXCEPT !.last_error = "StorageError"]
     ELSE IF s0.storage # Nothing THEN
       set_module_credentials(
         [s0 EXCEPT !.token_data = s0.storage,
                    !.credentials = Some(create_credentials(s0.storage[1]))])
     ELSE s0

(* ---------------- google.oauth2.credentials.Credentials ----------------- *)
\* Credentials.expired: False while the object has no expiry.  (The library
\* subtracts a clock-skew allowance of a few minutes, below the granularity
\* of the clock steps here.)
creds_expired(c, t) == c.expiry # Nothing /\ t >= c.expiry[1]

\* Credentials.refresh(Request()): POSTs the refresh grant to the same token
\* endpoint and updates the object in place, or raises RefreshError.
\* Returns <<raised, new object>>.
creds_refresh(c, t, resp) ==
  IF resp.status # 200 \/ resp.access_token = None THEN <<TRUE, c>>
  ELSE <<FALSE,
         [c EXCEPT !.token = resp.access_token,
                   !.refresh_token = IF resp.refresh_token = None THEN @
                                     ELSE resp.refresh_token,
                   !.id_token = resp.id_token,
                   !.expiry = IF resp.expires_in = <<>> THEN Nothing
                              ELSE Some(t + resp.expires_in[1] * TicksPerSecond)]>>

(* --------------------------- IAPClient (client.py) --------------------- *)
\* what one discovery source did: the token it yielded (None for nothing),
\* whether it raised, the new state, the POSTs it caused
Tried(s, raised, token, posts) ==
  [s |-> s, raised |-> raised, token |-> token, posts |-> posts]

\* a failed forced refresh is treated as "this source has no token"
MutTryAuthManagerMasksFailure(s, t, am, force_refresh, resp, outcome) ==
  IF ~am THEN Tried(s, FALSE, None, 0)
  ELSE IF force_refresh THEN
    The({IF r.exc # None THEN Tried(r.s, FALSE, None, r.posts)
         ELSE Tried(r.s, FALSE, id_token(r.s), r.posts) :
           r \in {refresh_tokens(s, t, resp, outcome)}})
  ELSE Tried(s, FALSE, id_token(s), 0)

\* _try_auth_manager; `am` says whether the client holds an AuthManager
try_auth_manager(s, t, am, force_refresh, resp, outcome) ==
  IF ~am THEN Tried(s, FALSE, None, 0)
  ELSE IF force_refresh THEN
    The({IF r.exc # None THEN Tried(r.s, TRUE, None, r.posts)
         ELSE Tried(r.s, FALSE, id_token(r.s), r.posts) :
           r \in {refresh_tokens(s, t, resp, outcome)}})
  ELSE Tried(s, FALSE, id_token(s), 0)

\* _try_module_credentials
try_module_credentials(s, t, force_refresh, resp) ==
  IF s.CREDENTIALS = Nothing THEN Tried(s, FALSE, None, 0)
  ELSE LET creds == s.CREDENTIALS[1] IN
    IF force_refresh \/ creds_expired(creds, t) THEN
      The({IF rr[1] THEN Tried(s, TRUE, None, 1)
           ELSE Tried([s EXCEPT !.CREDENTIALS = Some(rr[2]),
                                !.credentials = IF s.aliased THEN Some(rr[2])
                                                ELSE @],
                      FALSE, rr[2].id_token, 1) :
             rr \in {creds_refresh(creds, t, resp)}})
    ELSE Tried(s, FALSE, creds.id_token, 0)

\* the stored record's expiry is not looked at
MutTryStorageIgnoresExpiry(s, t) ==
  IF load(s) = "raise" THEN Tried(s, FALSE, None, 0)
  ELSE IF s.storage = Nothing THEN Tried(s, FALSE, None, 0)
  ELSE Tried(s, FALSE,
             IF s.storage[1].id_token = "" THEN None ELSE s.storage[1].id_token,
             0)

\* _try_storage (the fallback FileStorage is the default token file)
try_storage(s, t) ==
  IF load(s) = "raise" THEN Tried(s, FALSE, None, 0)
  ELSE IF s.storage = Nothing THEN Tried(s, FALSE, None, 0)
  ELSE IF is_expired(s.storage[1], t) THEN Tried(s, FALSE, None, 0)
  ELSE Tried(s, FALSE,
             IF s.storage[1].id_token = "" THEN None ELSE s.storage[1].id_token,
             0)

\* one entry of the discovery log
Consulted(src, tr) ==
  [source |-> src, yielded |-> IF tr.raised THEN "raise" ELSE tr.token]

\* the result of _get_id_token: new state, exception class (None if it
\* returned), the token, the POSTs caused, the sources consulted in order
Resolved(s, exc, token, posts, consulted) ==
  [s |-> s, exc |-> exc, token |-> token, posts |-> posts,
   consulted |-> consulted]

\* the module-level credentials are tried before the explicit AuthManager
MutGetIdTokenModuleFirst(s, t, am, force_refresh, resp1, outcome1, resp2) ==
  The({
    IF m.raised
      THEN Resolved(m.s, "RefreshError", None, m.posts,
                    <<Consulted("module_credentials", m)>>)
    ELSE IF Truthy(m.token)
      THEN Resolved(m.s, None, m.token, m.posts,
                    <<Consulted("module_credentials", m)>>)
    ELSE The({
      IF a.raised
        THEN Resolved(a.s, "TokenRefreshError", None, a.posts + m.posts,
                      <<Consulted("module_credentials", m),
                        Consulted("auth_manager", a)>>)
      ELSE IF Truthy(a.token)
        THEN Resolved(a.s, None, a.token, a.posts + m.posts,
                      <<Consulted("module_credentials", m),
                        Consulted("auth_manager", a)>>)
      ELSE The({
        Resolved(f.s, IF Truthy(f.token) THEN None ELSE "NoCredentialsError",
                 f.token, a.posts + m.posts,
                 <<Consulted("module_credentials", m),
                   Consulted("auth_manager", a),
                   Consulted("storage", f)>>) :
          f \in {try_storage(a.s, t)}}) :
        a \in {try_auth_manager(m.s, t, am, force_refresh, resp1, outcome1)}}) :
      m \in {try_module_credentials(s, t, force_refresh, resp2)}})

\* _get_id_token; resp1/outcome1 answer the engine's refresh, resp2 the
\* refresh of the module-level credentials
get_id_token(s, t, am, force_refresh, resp1, outcome1, resp2) ==
  The({
    IF a.raised
      THEN Resolved(a.s, "TokenRefreshError", None, a.posts,
                    <<Consulted("auth_manager", a)>>)
    ELSE IF Truthy(a.token)
      THEN Resolved(a.s, None, a.token, a.posts,
                    <<Consulted("auth_manager", a)>>)
    ELSE The({
      IF m.raised
        THEN Resolved(m.s, "RefreshError", None, a.posts + m.posts,
                      <<Consulted("auth_manager", a),
                        Consulted("module_credentials", m)>>)
      ELSE IF Truthy(m.token)
        THEN Resolved(m.s, None, m.token, a.posts + m.posts,
                      <<Consulted("auth_manager", a),
                        Consulted("module_credentials", m)>>)
      ELSE The({
        Resolved(f.s, IF Truthy(f.token) THEN None ELSE "NoCredentialsError",
                 f.token, a.posts + m.posts,
                 <<Consulted("auth_manager", a),
                   Consulted("module_credentials", m),
                   Consulted("storage", f)>>) :
          f \in {try_storage(m.s, t)}}) :
        m \in {try_module_credentials(a.s, t, force_refresh, resp2)}}) :
      a \in {try_auth_manager(s, t, am, force_refresh, resp1, outcome1)}})

\* a response of the IAP-protected service: which attempt it answers
Response(n, status) == [attempt |-> n, status |-> status]

\* the log of one token resolution made by _request
Chain(force_refresh, g) ==
  [force_refresh |-> force_refresh, consulted |-> g.consulted,
   exc |-> g.exc, token |-> g.token]

\* the result of _request: new state, exception class (None if it returned),
\* the response returned, POSTs to the token endpoint, the bearer tokens sent
\* (one per transport call), the token resolutions made
Requested(s, exc, ret, posts, sent, chains) ==
  [s |-> s, exc |-> exc, ret |-> ret, posts |-> posts, sent |-> sent,
   chains |-> chains]

\* a retry on every error status, not only on 401
MutShouldRetryOnAnyError(status) == status >= 400

\* no status leads to a retry
MutShouldRetryNever(status) == FALSE

\* `if response.status_code == 401:`
should_retry(status) == status = 401

\* the retry goes out with the header of the first attempt
MutRetryStaleBearer(g1, t, am, status1, resp1, outcome1, resp2, status2) ==
  The({
     IF g2.exc # None
       THEN Requested(g2.s, None, Some(Response(1, status1)), g1.posts + g2.posts,
                      <<g1.token>>, <<Chain(FALSE, g1), Chain(TRUE, g2)>>)
     ELSE IF status2 = 0
       THEN Requested(g2.s, None, Some(Response(1, status1)), g1.posts + g2.posts,
                      <<g1.token, g1.token>>, <<Chain(FALSE, g1), Chain(TRUE, g2)>>)
     ELSE Requested(g2.s, None, Some(Response(2, status2)), g1.posts + g2.posts,
                    <<g1.token, g1.token>>, <<Chain(FALSE, g1), Chain(TRUE, g2)>>) :
       g2 \in {get_id_token(g1.s, t, am, TRUE, resp1, outcome1, resp2)}})

\* the retry block without its except clause: errors escape to the caller
MutRetryRaises(g1, t, am, status1, resp1, outcome1, resp2, status2) ==
  The({
     IF g2.exc # None
       THEN Requested(g2.s, g2.exc, Nothing, g1.posts + g2.posts, <<g1.token>>, <<Chain(FALSE, g1), Chain(TRUE, g2)>>)
     ELSE IF status2 = 0
       THEN Requested(g2.s, "ConnectionError", Nothing, g1.posts + g2.posts,
                      <<g1.token, g2.token>>, <<Chain(FALSE, g1), Chain(TRUE, g2)>>)
     ELSE Requested(g2.s, None, Some(Response(2, status2)), g1.posts + g2.posts,
                    <<g1.token, g2.token>>, <<Chain(FALSE, g1), Chain(TRUE, g2)>>) :
       g2 \in {get_id_token(g1.s, t, am, TRUE, resp1, outcome1, resp2)}})

\* the retry block of _request (try: ... except (NoCredentialsError,
\* Exception): pass), entered with the first resolution g1 and the first
\* response's status
retry(g1, t, am, status1, resp1, outcome1, resp2, status2) ==
  The({
     IF g2.exc # None
       THEN Requested(g2.s, None, Some(Response(1, status1)), g1.posts + g2.posts,
                      <<g1.token>>, <<Chain(FALSE, g1), Chain(TRUE, g2)>>)
     ELSE IF status2 = 0
       THEN Requested(g2.s, None, Some(Response(1, status1)), g1.posts + g2.posts,
                      <<g1.token, g2.token>>, <<Chain(FALSE, g1), Chain(TRUE, g2)>>)
     ELSE Requested(g2.s, None, Some(Response(2, status2)), g1.posts + g2.posts,
                    <<g1.token, g2.token>>, <<Chain(FALSE, g1), Chain(TRUE, g2)>>) :
       g2 \in {get_id_token(g1.s, t, am, TRUE, resp1, outcome1, resp2)}})

\* _request.  url_ok: _build_url returns; resp0: answer to a refresh during
\* the first resolution; status1, status2: the service's answers (0 = the
\* transport raises); resp1, outcome1, resp2: answers during the forced
\* resolution
request(s, t, am, url_ok, resp0, status1, resp1, outcome1, resp2, status2) ==
  IF ~url_ok THEN Requested(s, "ValueError", Nothing, 0, <<>>, <<>>)
  ELSE
    The({
      IF g1.exc # None
        THEN Requested(g1.s, g1.exc, Nothing, g1.posts, <<>>,
                       <<Chain(FALSE, g1)>>)
      ELSE IF status1 = 0
        THEN Requested(g1.s, "ConnectionError", Nothing, g1.posts,
                       <<g1.token>>, <<Chain(FALSE, g1)>>)
      ELSE IF ~should_retry(status1)
        THEN Requested(g1.s, None, Some(Response(1, status1)), g1.posts,
                       <<g1.token>>, <<Chain(FALSE, g1)>>)
      ELSE retry(g1, t, am, status1, resp1, outcome1, resp2, status2) :
        g1 \in {get_id_token(s, t, am, FALSE, resp0, "ok", resp0)}})

\* base_url arguments of IAPClient(...) and path arguments of get/post/...
BaseUrls == {None, "https://svc/"}
Paths == {"/api", "https://other/x", "http://other/x"}

\* IAPClient.__init__: base_url.rstrip("/") if base_url else None
init_base_url(base_url) ==
  CASE base_url = "https://svc/" -> "https://svc"
    [] OTHER -> base_url

\* path.startswith(("http://", "https://")) on the paths of the model
starts_with_scheme(path) ==
  CASE path = "https://other/x" -> TRUE
    [] path = "http://other/x" -> TRUE
    [] OTHER -> FALSE

\* f"{self.base_url}/{path.lstrip('/')}" on the strings of the model
join_url(base_url, path) ==
  CASE base_url = "https://svc" /\ path = "/api" -> "https://svc/api"
    [] OTHER -> "?"

\* a relative path is requested as it is when there is no base URL
MutBuildUrlNeverRaises(base_url, path) ==
  IF starts_with_scheme(path) THEN Some(path)
  ELSE IF base_url = None THEN Some(path)
  ELSE Some(join_url(base_url, path))

\* _build_url, on a client whose base_url attribute is `base_url`: Some(url),
\* or Nothing when it raises ValueError
build_url(base_url, path) ==
  IF starts_with_scheme(path) THEN Some(path)
  ELSE IF base_url = None THEN Nothing
  ELSE Some(join_url(base_url, path))

\* A headers dict is the sequence of its <<name, value>> items in insertion
\* order.  An existing name is kept (setdefault) instead of overwritten.
MutDictSetKeepsExisting(d, k, v) ==
  IF \E i \in 1..Len(d) : d[i][1] = k THEN d ELSE Append(d, <<k, v>>)

\* d[k] = v on a Python dict: an existing key keeps its place
dict_set(d, k, v) ==
  IF \E i \in 1..Len(d) : d[i][1] = k
    THEN [i \in 1..Len(d) |-> IF d[i][1] = k THEN <<k, v>> ELSE d[i]]
    ELSE Append(d, <<k, v>>)

\* f"Bearer {id_token}"; a header value is the sequence of the pieces of
\* its string
Bearer(token) == <<"Bearer ", token>>

\* the headers of the transport calls of _request, one per call:
\* headers = kwargs.pop("headers", None) or {}, then before each call
\* headers["Authorization"] = f"Bearer {token}" on that same dict
RECURSIVE request_headers(_, _)
request_headers(headers, sent) ==
  IF sent = <<>> THEN <<>>
  ELSE The({<<h>> \o request_headers(h, Tail(sent)) :
              h \in {dict_set(headers, "Authorization", Bearer(Head(sent)))}})

\* str.lower() on the header names of the model
Lower(name) ==
  CASE name = "Authorization" -> "authorization"
    [] name = "X-Trace" -> "x-trace"
    [] OTHER -> name

\* what session.request puts on the wire for `name`: requests copies the
\* dict item by item into a case-insensitive dict, so the last item whose
\* name matches, case ignored, is the one sent (Nothing if there is none)
RECURSIVE header_on_wire(_, _)
header_on_wire(d, name) ==
  IF d = <<>> THEN Nothing
  ELSE IF Lower(d[Len(d)][1]) = Lower(name) THEN Some(d[Len(d)][2])
  ELSE header_on_wire(SubSeq(d, 1, Len(d) - 1), name)

\* the headers= argument callers pass to get/post/...: none (or an empty
\* dict), a custom header, and an Authorization header of their own in both
\* spellings
CallerHeaders ==
  { <<>>,
    << <<"X-Trace", <<"t1">>>> >>,
    << <<"Authorization", <<"Basic ", "u">>>>, <<"X-Trace", <<"t1">>>> >>,
    << <<"authorization", <<"Basic ", "u">>>>, <<"X-Trace", <<"t1">>>> >> }

(* ------------------------------ actions -------------------------------- *)
\* the log entry of a call
Log(op, arg, exc, msg, ret, posts, sent, chains, headers) ==
  [op |-> op, arg |-> arg, exc |-> exc, msg |-> msg, ret |-> ret,
   posts |-> posts, sent |-> sent, chains |-> chains, headers |-> headers]

\* the log while no call's result is being looked at
Idle == Log("idle", Nothing, None, <<>>, Nothing, 0, <<>>, <<>>, <<>>)

\* a call can be made: the previous one has returned and the bound on the
\* number of calls is not reached
Ready == last = Idle /\ calls < MaxCalls

\* a call is made and the process state becomes s
Becomes(s) ==
  /\ last = Idle
  /\ calls < MaxCalls
  /\ calls' = calls + 1
  /\ token_data' = s.token_data
  /\ credentials' = s.credentials
  /\ last_error' = s.last_error
  /\ storage' = s.storage
  /\ fileBad' = s.fileBad
  /\ CREDENTIALS' = s.CREDENTIALS
  /\ aliased' = s.aliased
  /\ UNCHANGED storeVars
  /\ UNCHANGED uiVars

\* records a previous process of this program left in the token file
PriorRecords ==
  { TokenData("at1", "h.A.s", "rt1", DefaultExpiresIn, DEFAULT_SCOPES,
              "alice@example.com"),
    TokenData("at1", "h.A.s", "rt1", 0, DEFAULT_SCOPES, "alice@example.com") }

\* process start: tokentoss imported (CREDENTIALS = None), no engine yet
Init ==
  /\ now = 0
  /\ constructed = FALSE
  /\ token_data = Nothing
  /\ credentials = Nothing
  /\ last_error = None
  /\ storage \in {Nothing} \cup {Some(td) : td \in PriorRecords}
  /\ fileBad \in BOOLEAN
  /\ fileBad => storage = Nothing
  /\ CREDENTIALS = Nothing
  /\ aliased = FALSE
  /\ calls = 0
  /\ others = FALSE
  /\ mem = Nothing
  /\ file = Nothing
  /\ saved = [memory |-> Nothing, file |-> Nothing, settled |-> FALSE]
  /\ config_file = Nothing
  /\ widget = Nothing
  /\ httpd = Nothing
  /\ exchanges = <<>>
  /\ last = Idle

\* time passes
Tick ==
  /\ last = Idle
  /\ now + TickSeconds * TicksPerSecond + 1 < (MaxTime + 1) * TicksPerSecond
  /\ now' = now + TickSeconds * TicksPerSecond + 1
  /\ UNCHANGED <<constructed, token_data, credentials, last_error, storage,
                 fileBad, CREDENTIALS, aliased, calls, others, last>>
  /\ UNCHANGED storeVars
  /\ UNCHANGED uiVars

\* the caller is done with the result of the call it made
Return ==
  /\ last # Idle
  /\ last' = Idle
  /\ UNCHANGED <<now, constructed, token_data, credentials, last_error,
                 storage, fileBad, CREDENTIALS, aliased, calls, others>>
  /\ UNCHANGED storeVars
  /\ UNCHANGED uiVars

\* AuthManager(...) is constructed (a new engine replaces the previous one)
Construct ==
  /\ Ready
  /\ constructed' = TRUE
  /\ others' = constructed
  /\ \E s \in {load_from_storage(State)} : Becomes(s)
  /\ last' = Log("construct", Nothing, None, <<>>, Nothing, 0, <<>>, <<>>,
                 <<>>)
  /\ UNCHANGED now

\* the disk's answers that matter for a token endpoint answer
SaveOutcomesFor(resp) ==
  IF resp.status = 200 /\ resp.access_token # None THEN SaveOutcomes ELSE {"ok"}

\* the token endpoint's possible answers to refresh_tokens in state s: it is
\* contacted only when the engine holds a refresh token
RefreshAnswers(s) == IF has_refresh_token(s) THEN Responses ELSE {NetFail}

\* the token endpoint's possible answers to a read of .credentials
CredentialsAnswers(s, t) ==
  IF s.credentials # Nothing /\ s.token_data # Nothing
     /\ is_expired(s.token_data[1], t)
    THEN RefreshAnswers(s) ELSE {NetFail}

\* the token endpoint's possible answers to the engine's refresh during
\* _get_id_token
EngineAnswers(s, am, force_refresh) ==
  IF am /\ force_refresh THEN RefreshAnswers(s) ELSE {NetFail}

\* the token endpoint's possible answers to the refresh of the module-level
\* credentials during _get_id_token, once the engine's refresh was answered
ModuleAnswers(s, t, am, force_refresh, resp1, outcome1) ==
  LET a == try_auth_manager(s, t, am, force_refresh, resp1, outcome1) IN
  IF ~a.raised /\ ~Truthy(a.token) /\ a.s.CREDENTIALS # Nothing
     /\ (force_refresh \/ creds_expired(a.s.CREDENTIALS[1], t))
    THEN Responses ELSE {NetFail}

ExchangeCode ==
  /\ Ready
  /\ constructed
  /\ \E resp \in Responses : \E outcome \in SaveOutcomesFor(resp) :
       \E r \in {exchange_code(State, now, resp, outcome)} :
       /\ Becomes(r.s)
       /\ last' = Log("exchange_code", Some(resp), r.exc, r.msg, r.ret,
                      r.posts, <<>>, <<>>, <<>>)
  /\ UNCHANGED <<now, constructed, others>>

RefreshTokens ==
  /\ Ready
  /\ constructed
  /\ \E resp \in RefreshAnswers(State) : \E outcome \in SaveOutcomesFor(resp) :
       \E r \in {refresh_tokens(State, now, resp, outcome)} :
       /\ Becomes(r.s)
       /\ last' = Log("refresh_tokens", Some(resp), r.exc, r.msg, r.ret,
                      r.posts, <<>>, <<>>, <<>>)
  /\ UNCHANGED <<now, constructed, others>>

CredentialsAccess ==
  /\ Ready
  /\ constructed
  /\ \E resp \in CredentialsAnswers(State, now) :
     \E outcome \in SaveOutcomesFor(resp) :
       \E r \in {credentials_property(State, now, resp, outcome)} :
       /\ Becomes(r.s)
       /\ last' = Log("credentials", Some(resp), r.exc, r.msg, r.ret,
                      r.posts, <<>>, <<>>, <<>>)
  /\ UNCHANGED <<now, constructed, others>>

Clear ==
  /\ Ready
  /\ constructed
  /\ \E unlink_ok \in BOOLEAN :
       \E r \in {clear(State, unlink_ok)} :
       /\ Becomes(r.s)
       /\ last' = Log("clear", Nothing, r.exc, r.msg, r.ret, r.posts,
                      <<>>, <<>>, <<>>)
  /\ UNCHANGED <<now, constructed, others>>

\* clear() is called on an AuthManager constructed earlier, over the same
\* token file
ClearOther ==
  /\ Ready
  /\ others
  /\ \E unlink_ok \in BOOLEAN :
       \E r \in {clear_other(State, unlink_ok)} :
       /\ Becomes(r.s)
       /\ last' = Log("clear_other", Nothing, r.exc, r.msg, r.ret, r.posts,
                      <<>>, <<>>, <<>>)
  /\ UNCHANGED <<now, constructed, others>>

\* the service's answers: 0 = the transport raises
Statuses == {0, 200, 401, 500}

\* IAPClient(...).get/post/...: a client with (am) or without an explicit
\* AuthManager makes one request.  Each answer of the outside world is drawn
\* only where the code asks for it.
Request ==
  /\ Ready
  /\ \E am \in {a \in BOOLEAN : a => constructed} :
     \E base_url \in BaseUrls : \E path \in Paths :
     \E url \in {build_url(init_base_url(base_url), path)} :
     \E url_ok \in {url # Nothing} :
     \E resp0 \in (IF url_ok
                     THEN ModuleAnswers(State, now, am, FALSE, NetFail, "ok")
                     ELSE {NetFail}) :
       \E sent1 \in {url_ok /\ get_id_token(State, now, am, FALSE, resp0,
                                             "ok", resp0).exc = None} :
       \E s1 \in {get_id_token(State, now, am, FALSE, resp0, "ok", resp0).s} :
       \E status1 \in (IF sent1 THEN Statuses ELSE {0}) :
       \E resp1 \in (IF sent1 /\ should_retry(status1)
                       THEN EngineAnswers(s1, am, TRUE) ELSE {NetFail}) :
       \E outcome1 \in SaveOutcomesFor(resp1) :
       \E resp2 \in (IF sent1 /\ should_retry(status1)
                       THEN ModuleAnswers(s1, now, am, TRUE, resp1, outcome1)
                       ELSE {NetFail}) :
         \E status2 \in (IF sent1 /\ should_retry(status1)
                            /\ get_id_token(s1, now, am, TRUE, resp1, outcome1,
                                            resp2).exc = None
                           THEN Statuses ELSE {0}) :
         \E r \in {request(State, now, am, url_ok, resp0, status1, resp1,
                            outcome1, resp2, status2)} :
         \E headers \in (IF r.sent # <<>> THEN CallerHeaders ELSE {<<>>}) :
           /\ Becomes(r.s)
           /\ last' = Log("request", Some([am |-> am, status1 |-> status1,
                                           resp1 |-> resp1,
                                           outcome1 |-> outcome1,
                                           status2 |-> status2,
                                           headers |-> headers,
                                           base_url |-> base_url,
                                           path |-> path, url |-> url]),
                          r.exc, <<>>, r.ret, r.posts, r.sent, r.chains,
                          request_headers(headers, r.sent))
  /\ UNCHANGED <<now, constructed, others>>

Next ==
  \/ Tick
  \/ Return
  \/ Construct
  \/ ExchangeCode
  \/ RefreshTokens
  \/ CredentialsAccess
  \/ Clear
  \/ ClearOther
  \/ Request

Spec == Init /\ [][Next]_vars

(* ------------- the two stores on their own (storage.py) ---------------- *)
\* number of store operations per behaviour
MaxStoreOps == 4

\* FileStorage.SECURE_PERMISSIONS = stat.S_IRUSR | stat.S_IWUSR (0o600)
SECURE_PERMISSIONS == 384

\* mode of a file that open(path, "w") creates: 0o666 & ~umask, for the
\* umasks 0o022 and 0o077
NewFileModes == {420, 384}

\* the records callers save: one with every field set, one with an empty
\* ID token, no scopes and no user_email
StoreRecords ==
  { TokenData("at1", "h.A.s", "rt1", DefaultExpiresIn, DEFAULT_SCOPES,
              "alice@example.com"),
    TokenData("at2", "", "", TickSeconds, <<>>, None) }

\* TokenData.to_dict (dataclasses.asdict): a dict of the six fields
to_dict(td) ==
  [k \in {"access_token", "id_token", "refresh_token", "expiry", "scopes",
          "user_email"} |-> td[k]]

\* json.dump of a dict: a JSON value is <<"object", members>>,
\* <<"string", s>>, <<"array", items>> or <<"null">> (None is written as
\* null; expiry is the ISO string, scopes the list)
json_dump(d) ==
  <<"object",
    [k \in DOMAIN d |->
       IF k = "scopes" THEN <<"array", d[k]>>
       ELSE IF k = "expiry" THEN <<"string", d[k]>>
       ELSE IF d[k] = None THEN <<"null">>
       ELSE <<"string", d[k]>>]>>

\* isinstance(json.load(f), dict): the document is a JSON object
is_dict(doc) == doc[1] = "object"

\* json.load of a document that parses: an object is read as a dict, null as
\* None, an array as the list of its items
json_load(doc) ==
  IF is_dict(doc)
    THEN [k \in DOMAIN doc[2] |->
            IF doc[2][k][1] = "null" THEN None ELSE doc[2][k][2]]
  ELSE doc[2]

\* user_email is read with data["user_email"], like the required fields
MutFromDictRequiresEmail(data) ==
  IF ~({"access_token", "id_token", "refresh_token", "expiry", "user_email"}
         \subseteq DOMAIN data)
    THEN Nothing
  ELSE IF data["user_email"] = None THEN Nothing
  ELSE Some(TokenData(data["access_token"], data["id_token"],
                      data["refresh_token"], data["expiry"],
                      IF "scopes" \in DOMAIN data THEN data["scopes"] ELSE <<>>,
                      data["user_email"]))

\* TokenData.from_dict: Some(record), or Nothing when a required key is
\* missing (KeyError)
from_dict(data) ==
  IF ~({"access_token", "id_token", "refresh_token", "expiry"}
         \subseteq DOMAIN data)
    THEN Nothing
  ELSE Some(TokenData(data["access_token"], data["id_token"],
                      data["refresh_token"], data["expiry"],
                      IF "scopes" \in DOMAIN data THEN data["scopes"] ELSE <<>>,
                      IF "user_email" \in DOMAIN data THEN data["user_email"]
                      ELSE None))

\* a file: its content (Some(document), or Nothing when the content is not
\* valid JSON) and its permission bits
File(doc, mode) == [doc |-> doc, mode |-> mode]

\* the result of a store operation: the store afterwards, the exception
\* class (None if it returned), its message, the value returned, the number
\* of InsecureFilePermissionsWarning emitted
StoreResult(store, exc, msg, ret, warnings) ==
  [store |-> store, exc |-> exc, msg |-> msg, ret |-> ret,
   warnings |-> warnings]

\* MemoryStorage.save / load / clear / exists on the slot m
mem_save(m, td) == StoreResult(Some(td), None, <<>>, Nothing, 0)
mem_load(m) == StoreResult(m, None, <<>>, m, 0)
mem_clear(m) == StoreResult(Nothing, None, <<>>, Nothing, 0)
mem_exists(m) == m # Nothing

\* outcomes of FileStorage.save: those of the engine's saves, and an OSError
\* of os.chmod after the record was written
StoreSaveOutcomes == SaveOutcomes \cup {"fail_chmod"}

\* the permissions are left as open() made them
MutFileSaveSkipsChmod(f, td, outcome, newmode) ==
  LET mode == IF f = Nothing THEN newmode ELSE f[1].mode IN
  CASE outcome = "ok" ->
         StoreResult(Some(File(Some(json_dump(to_dict(td))), mode)),
                     None, <<>>, Nothing, 0)
    [] outcome = "fail_partial" ->
         StoreResult(Some(File(Nothing, mode)), "StorageError",
                     <<"Failed to save tokens to ">>, Nothing, 0)
    [] outcome = "fail_chmod" ->
         StoreResult(Some(File(Some(json_dump(to_dict(td))), mode)),
                     "StorageError", <<"Failed to save tokens to ">>,
                     Nothing, 0)
    [] OTHER ->
         StoreResult(f, "StorageError", <<"Failed to save tokens to ">>,
                     Nothing, 0)

\* FileStorage.save on the file f (Nothing: no file); newmode: the mode
\* open() gives the file when it has to create it
file_save(f, td, outcome, newmode) ==
  LET mode == IF f = Nothing THEN newmode ELSE f[1].mode IN
  CASE outcome = "ok" ->
         StoreResult(Some(File(Some(json_dump(to_dict(td))),
                               SECURE_PERMISSIONS)),
                     None, <<>>, Nothing, 0)
    [] outcome = "fail_partial" ->
         StoreResult(Some(File(Nothing, mode)), "StorageError",
                     <<"Failed to save tokens to ">>, Nothing, 0)
    [] outcome = "fail_chmod" ->
         StoreResult(Some(File(Some(json_dump(to_dict(td))), mode)),
                     "StorageError", <<"Failed to save tokens to ">>,
                     Nothing, 0)
    [] OTHER ->
         StoreResult(f, "StorageError", <<"Failed to save tokens to ">>,
                     Nothing, 0)

\* the file is created with owner-only permissions
MutFileWriteCreatesSecure(f, td, newmode) ==
  Some(File(Some(json_dump(to_dict(td))),
            IF f = Nothing THEN SECURE_PERMISSIONS ELSE f[1].mode))

\* the first half of FileStorage.save: open(path, "w") and json.dump have
\* written the record; a file that had to be created has the mode open()
\* gave it, an existing one keeps its mode
file_write(f, td, newmode) ==
  Some(File(Some(json_dump(to_dict(td))),
            IF f = Nothing THEN newmode ELSE f[1].mode))

\* the second half of FileStorage.save: os.chmod(path, SECURE_PERMISSIONS)
file_chmod(f) == Some(File(f[1].doc, SECURE_PERMISSIONS))

\* FileStorage._check_permissions: the number of warnings it emits
check_permissions(f) ==
  IF f = Nothing THEN 0
  ELSE IF f[1].mode # SECURE_PERMISSIONS THEN 1 ELSE 0

\* FileStorage.load; read_ok: open() and read() do not raise OSError.  A
\* document that is not an object makes data["access_token"] in from_dict
\* raise TypeError, which no except clause of load catches
file_load(f, read_ok) ==
  IF f = Nothing THEN StoreResult(f, None, <<>>, Nothing, 0)
  ELSE IF ~read_ok THEN
    StoreResult(f, "StorageError", <<"Failed to read token file ">>, Nothing,
                check_permissions(f))
  ELSE IF f[1].doc = Nothing THEN
    StoreResult(f, "StorageError", <<"Invalid JSON in token file ">>, Nothing,
                check_permissions(f))
  ELSE IF ~is_dict(f[1].doc[1]) THEN
    StoreResult(f, "TypeError", <<"indices must be integers">>, Nothing,
                check_permissions(f))
  ELSE IF from_dict(json_load(f[1].doc[1])) = Nothing THEN
    StoreResult(f, "StorageError", <<"Missing required field in token file: ">>,
                Nothing, check_permissions(f))
  ELSE StoreResult(f, None, <<>>, from_dict(json_load(f[1].doc[1])),
                   check_permissions(f))

\* FileStorage.clear; unlink_ok: unlink() does not raise OSError
file_clear(f, unlink_ok) ==
  IF f = Nothing THEN StoreResult(f, None, <<>>, Nothing, 0)
  ELSE IF unlink_ok THEN StoreResult(Nothing, None, <<>>, Nothing, 0)
  ELSE StoreResult(f, "StorageError", <<"Failed to delete token file ">>,
                   Nothing, 0)

\* FileStorage.exists
file_exists(f) == f # Nothing

\* the log entry of a store operation
StoreLog(op, arg, r) ==
  [op |-> op, arg |-> arg, exc |-> r.exc, msg |-> r.msg, ret |-> r.ret,
   warnings |-> r.warnings]

\* files found at the path before the store is first used: none, one that
\* another program wrote with world-readable permissions, one that is not
\* JSON, one that lacks the expiry member, one that holds an empty JSON array
FoundFiles ==
  { Nothing,
    Some(File(Some(json_dump(to_dict(
           TokenData("at1", "h.A.s", "rt1", DefaultExpiresIn, DEFAULT_SCOPES,
                     "alice@example.com")))), 420)),
    Some(File(Nothing, SECURE_PERMISSIONS)),
    Some(File(Some(<<"object", [access_token |-> <<"string", "at1">>,
                                id_token |-> <<"string", "h.A.s">>,
                                refresh_token |-> <<"string", "rt1">>]>>),
              438)),
    Some(File(Some(<<"array", <<>>>>), SECURE_PERMISSIONS)) }

\* a new MemoryStorage and a FileStorage over a path
InitStorage ==
  /\ now = 0
  /\ constructed = FALSE
  /\ token_data = Nothing
  /\ credentials = Nothing
  /\ last_error = None
  /\ storage = Nothing
  /\ fileBad = FALSE
  /\ CREDENTIALS = Nothing
  /\ aliased = FALSE
  /\ others = FALSE
  /\ calls = 0
  /\ mem = Nothing
  /\ file \in FoundFiles
  /\ saved = [memory |-> Nothing, file |-> Nothing, settled |-> FALSE]
  /\ config_file = Nothing
  /\ widget = Nothing
  /\ httpd = Nothing
  /\ exchanges = <<>>
  /\ last = Idle

\* one more store operation is made
StoreOp ==
  /\ calls < MaxStoreOps
  /\ calls' = calls + 1
  /\ UNCHANGED engineVars
  /\ UNCHANGED uiVars

MemSave ==
  /\ StoreOp
  /\ \E td \in StoreRecords : \E r \in {mem_save(mem, td)} :
       /\ mem' = r.store
       /\ saved' = [saved EXCEPT !.memory = Some(td)]
       /\ last' = StoreLog("mem_save", Some(td), r)
  /\ UNCHANGED file

MemLoad ==
  /\ StoreOp
  /\ \E r \in {mem_load(mem)} :
       /\ mem' = r.store
       /\ last' = StoreLog("mem_load", Nothing, r)
  /\ UNCHANGED <<file, saved>>

MemClear ==
  /\ StoreOp
  /\ \E r \in {mem_clear(mem)} :
       /\ mem' = r.store
       /\ saved' = [saved EXCEPT !.memory = Nothing]
       /\ last' = StoreLog("mem_clear", Nothing, r)
  /\ UNCHANGED file

FileSave ==
  /\ StoreOp
  /\ \E td \in StoreRecords : \E outcome \in StoreSaveOutcomes :
     \E newmode \in (IF file = Nothing /\ outcome # "fail_untouched"
                       THEN NewFileModes ELSE {SECURE_PERMISSIONS}) :
     \E r \in {file_save(file, td, outcome, newmode)} :
       /\ file' = r.store
       /\ saved' = IF r.exc = None
                     THEN [saved EXCEPT !.file = Some(td), !.settled = TRUE]
                     ELSE [saved EXCEPT !.settled = FALSE]
       /\ last' = StoreLog("file_save", Some(td), r)
  /\ UNCHANGED mem

\* the process is killed inside FileStorage.save, after json.dump has
\* written the record and before os.chmod; the calls that follow are those
\* of the next process
FileSaveKilled ==
  /\ StoreOp
  /\ \E td \in StoreRecords :
     \E newmode \in (IF file = Nothing THEN NewFileModes
                     ELSE {SECURE_PERMISSIONS}) :
       /\ file' = file_write(file, td, newmode)
       /\ saved' = [saved EXCEPT !.settled = FALSE]
       /\ last' = [op |-> "file_save_killed",
                   arg |-> [tokens |-> td, created |-> file = Nothing,
                            newmode |-> newmode],
                   exc |-> None, msg |-> <<>>, ret |-> Nothing,
                   warnings |-> 0]
  /\ UNCHANGED mem

FileLoad ==
  /\ StoreOp
  /\ \E read_ok \in (IF file = Nothing THEN {TRUE} ELSE BOOLEAN) :
     \E r \in {file_load(file, read_ok)} :
       /\ file' = r.store
       /\ last' = StoreLog("file_load", Nothing, r)
  /\ UNCHANGED <<mem, saved>>

FileClear ==
  /\ StoreOp
  /\ \E unlink_ok \in (IF file = Nothing THEN {TRUE} ELSE BOOLEAN) :
     \E r \in {file_clear(file, unlink_ok)} :
       /\ file' = r.store
       /\ saved' = IF r.exc = None
                     THEN [saved EXCEPT !.file = Nothing, !.settled = TRUE]
                     ELSE [saved EXCEPT !.settled = FALSE]
       /\ last' = StoreLog("file_clear", Nothing, r)
  /\ UNCHANGED mem

NextStorage ==
  \/ MemSave
  \/ MemLoad
  \/ MemClear
  \/ FileSave
  \/ FileSaveKilled
  \/ FileLoad
  \/ FileClear

SpecStorage == InitStorage /\ [][NextStorage]_vars

(* ------------- TokenData.is_expired on its own (storage.py) ------------ *)
\* the latest expiry (whole seconds) of the records examined
MaxExpiry == 5

\* a record with any expiry up to MaxExpiry, at any instant of the clock up
\* to one second after the latest expiry
InitExpiry ==
  /\ now \in 0 .. (MaxExpiry + 1) * TicksPerSecond
  /\ constructed = FALSE
  /\ \E exp \in 1 .. MaxExpiry :
       token_data = Some(TokenData("at1", "h.A.s", "rt1", exp, DEFAULT_SCOPES,
                                   None))
  /\ credentials = Nothing
  /\ last_error = None
  /\ storage = Nothing
  /\ fileBad = FALSE
  /\ CREDENTIALS = Nothing
  /\ aliased = FALSE
  /\ others = FALSE
  /\ calls = 0
  /\ mem = Nothing
  /\ file = Nothing
  /\ saved = [memory |-> Nothing, file |-> Nothing, settled |-> FALSE]
  /\ config_file = Nothing
  /\ widget = Nothing
  /\ httpd = Nothing
  /\ exchanges = <<>>
  /\ last = Idle

\* the clock advances by one tick
AdvanceClock ==
  /\ last = Idle
  /\ now < (MaxExpiry + 1) * TicksPerSecond
  /\ now' = now + 1
  /\ UNCHANGED <<constructed, token_data, credentials, last_error, storage,
                 fileBad, CREDENTIALS, aliased, calls, others, last>>
  /\ UNCHANGED storeVars
  /\ UNCHANGED uiVars

\* record.is_expired is read
IsExpired ==
  /\ last = Idle
  /\ last' = [op |-> "is_expired", arg |-> token_data,
              ret |-> is_expired(token_data[1], now)]
  /\ UNCHANGED <<now, constructed, token_data, credentials, last_error,
                 storage, fileBad, CREDENTIALS, aliased, calls, others>>
  /\ UNCHANGED storeVars
  /\ UNCHANGED uiVars

NextExpiry ==
  \/ AdvanceClock
  \/ IsExpired
  \/ Return

SpecExpiry == InitExpiry /\ [][NextExpiry]_vars

(* ------ client descriptor: ClientConfig.from_file and configure -------- *)
\* number of descriptor operations per behaviour
MaxConfigOps == 2

\* GOOGLE_AUTH_URI, GOOGLE_TOKEN_URI, GOOGLE_CERT_URL, DEFAULT_REDIRECT_URIS
GOOGLE_AUTH_URI == <<"https://accounts.google.com/o/oauth2/auth">>
GOOGLE_TOKEN_URI == <<"https://oauth2.googleapis.com/token">>
GOOGLE_CERT_URL == <<"https://www.googleapis.com/oauth2/v1/certs">>
DEFAULT_REDIRECT_URIS == << <<"http://localhost">> >>

\* str.strip on a string given as the sequence of its pieces, " " being
\* white space
RECURSIVE lstrip(_)
lstrip(s) == IF s # <<>> /\ Head(s) = " " THEN lstrip(Tail(s)) ELSE s

RECURSIVE rstrip(_)
rstrip(s) ==
  IF s # <<>> /\ s[Len(s)] = " " THEN rstrip(SubSeq(s, 1, Len(s) - 1)) ELSE s

strip(s) == rstrip(lstrip(s))

\* json.load / json.loads: a JSON value <<"object", members>>, <<"array",
\* items>>, <<"string", pieces>> or <<"null">> is read as the Python value
\* <<"dict", items>>, <<"list", items>>, <<"str", pieces>> or <<"NoneType">>
RECURSIVE loads(_)
loads(doc) ==
  CASE doc[1] = "object" ->
         <<"dict", [k \in DOMAIN doc[2] |-> loads(doc[2][k])]>>
    [] doc[1] = "array" ->
         <<"list", [i \in DOMAIN doc[2] |-> loads(doc[2][i])]>>
    [] doc[1] = "string" -> <<"str", doc[2]>>
    [] doc[1] = "null" -> <<"NoneType">>

\* json.dumps
RECURSIVE dumps(_)
dumps(v) ==
  CASE v[1] = "dict" -> <<"object", [k \in DOMAIN v[2] |-> dumps(v[2][k])]>>
    [] v[1] = "list" -> <<"array", [i \in DOMAIN v[2] |-> dumps(v[2][i])]>>
    [] v[1] = "str" -> <<"string", v[2]>>
    [] v[1] = "NoneType" -> <<"null">>

\* bool(v): None and empty dicts, lists and strings are false
py_truthy(v) == v[1] # "NoneType" /\ v[2] # <<>>

\* `key in v` raises TypeError when v is None
py_in_raises(v) == v[1] = "NoneType"

\* `key in v` for a dict (its keys) or a list (its items)
py_in(key, v) ==
  CASE v[1] = "dict" -> key \in DOMAIN v[2]
    [] v[1] = "list" -> \E i \in DOMAIN v[2] : v[2][i] = <<"str", <<key>>>>

\* v.get(key) on a dict: the value, or None
py_get(v, key) ==
  IF key \in DOMAIN v[2] THEN v[2][key] ELSE <<"NoneType">>

\* v[key] raises KeyError on a dict without the key, and TypeError on a
\* list, a string or None (the key is a string)
py_item_raises(v, key) ==
  IF v[1] # "dict" THEN "TypeError"
  ELSE IF key \notin DOMAIN v[2] THEN "KeyError"
  ELSE None

\* the result of a descriptor operation: the exception class (None if it
\* returned), its message, the value returned
ConfigResult(exc, msg, ret) == [exc |-> exc, msg |-> msg, ret |-> ret]

\* ClientConfig.from_file on the entry at the path (Nothing: no file there).
\* The registration returned is shown by its client_id and client_secret.
from_file(entry) ==
  IF entry = Nothing THEN
    ConfigResult("FileNotFoundError", <<"Client secrets file not found: ">>,
                 Nothing)
  ELSE IF entry[1].doc = Nothing THEN
    ConfigResult("JSONDecodeError", <<"Expecting value">>, Nothing)
  ELSE IF py_in_raises(loads(entry[1].doc[1])) THEN
    ConfigResult("TypeError", <<"argument of type 'NoneType'">>, Nothing)
  ELSE IF ~py_in("installed", loads(entry[1].doc[1]))
          /\ ~py_in("web", loads(entry[1].doc[1])) THEN
    ConfigResult("ValueError", <<"Invalid client_secrets.json format. ">>,
                 Nothing)
  ELSE
    The({ IF py_item_raises(config, "client_id") # None THEN
            ConfigResult(py_item_raises(config, "client_id"),
                         <<"client_id">>, Nothing)
          ELSE IF py_item_raises(config, "client_secret") # None THEN
            ConfigResult(py_item_raises(config, "client_secret"),
                         <<"client_secret">>, Nothing)
          ELSE
            ConfigResult(None, <<>>,
              Some([client_id |-> config[2]["client_id"],
                    client_secret |-> config[2]["client_secret"]]))
          : config \in
              {loads(entry[1].doc[1])[2][
                 IF py_in("installed", loads(entry[1].doc[1]))
                   THEN "installed" ELSE "web"]} })

\* _write_config: the standard location afterwards and the outcome; newmode
\* is the mode write_text gives the file when it has to create it
write_config(dest, config_data, outcome, newmode) ==
  The({ CASE outcome = "ok" ->
               StoreResult(Some(File(Some(dumps(config_data)),
                                     SECURE_PERMISSIONS)),
                           None, <<>>, Some("dest"), 0)
          [] outcome = "fail_partial" ->
               StoreResult(Some(File(Nothing, mode)), "StorageError",
                           <<"Failed to write config to ">>, Nothing, 0)
          [] outcome = "fail_chmod" ->
               StoreResult(Some(File(Some(dumps(config_data)), mode)),
                           "StorageError", <<"Failed to write config to ">>,
                           Nothing, 0)
          [] OTHER ->
               StoreResult(dest, "StorageError",
                           <<"Failed to write config to ">>, Nothing, 0)
        : mode \in {IF dest = Nothing THEN newmode ELSE dest[1].mode} })

\* the "installed" section configure_from_credentials builds
installed_section(client_id, client_secret, project_id) ==
  IF project_id # Nothing /\ project_id[1] # <<>> THEN
    [client_id |-> <<"str", strip(client_id)>>,
     client_secret |-> <<"str", strip(client_secret)>>,
     auth_uri |-> <<"str", GOOGLE_AUTH_URI>>,
     token_uri |-> <<"str", GOOGLE_TOKEN_URI>>,
     auth_provider_x509_cert_url |-> <<"str", GOOGLE_CERT_URL>>,
     redirect_uris |-> <<"list", [i \in DOMAIN DEFAULT_REDIRECT_URIS |->
                                    <<"str", DEFAULT_REDIRECT_URIS[i]>>]>>,
     project_id |-> <<"str", strip(project_id[1])>>]
  ELSE
    [client_id |-> <<"str", strip(client_id)>>,
     client_secret |-> <<"str", strip(client_secret)>>,
     auth_uri |-> <<"str", GOOGLE_AUTH_URI>>,
     token_uri |-> <<"str", GOOGLE_TOKEN_URI>>,
     auth_provider_x509_cert_url |-> <<"str", GOOGLE_CERT_URL>>,
     redirect_uris |-> <<"list", [i \in DOMAIN DEFAULT_REDIRECT_URIS |->
                                    <<"str", DEFAULT_REDIRECT_URIS[i]>>]>>]

\* configure_from_credentials
configure_from_credentials(dest, client_id, client_secret, project_id, outcome, newmode) ==
  IF client_id = <<>> \/ strip(client_id) = <<>> THEN
    StoreResult(dest, "ValueError", <<"client_id cannot be empty">>,
                Nothing, 0)
  ELSE IF client_secret = <<>> \/ strip(client_secret) = <<>> THEN
    StoreResult(dest, "ValueError", <<"client_secret cannot be empty">>,
                Nothing, 0)
  ELSE
    write_config(dest,
      <<"dict", [installed |->
         <<"dict", installed_section(client_id, client_secret, project_id)>>]>>,
      outcome, newmode)

\* configure_from_file on the entry at source_path.  The document read is
\* a dict or a list when .get is reached only if it is a dict, for the
\* lists considered (none has the item "installed" or "web").
configure_from_file(dest, entry, outcome, newmode) ==
  IF entry = Nothing THEN
    StoreResult(dest, "FileNotFoundError",
                <<"Client secrets file not found: ">>, Nothing, 0)
  ELSE IF entry[1].doc = Nothing THEN
    StoreResult(dest, "ValueError", <<"Invalid JSON in ">>, Nothing, 0)
  ELSE IF py_in_raises(loads(entry[1].doc[1])) THEN
    StoreResult(dest, "TypeError", <<"argument of type 'NoneType'">>,
                Nothing, 0)
  ELSE IF ~py_in("installed", loads(entry[1].doc[1]))
          /\ ~py_in("web", loads(entry[1].doc[1])) THEN
    StoreResult(dest, "ValueError",
                <<"Invalid client_secrets.json format in ">>, Nothing, 0)
  ELSE
    The({ The({ IF py_in_raises(section) THEN
                  StoreResult(dest, "TypeError",
                              <<"argument of type 'NoneType'">>, Nothing, 0)
                ELSE IF ~py_in("client_id", section)
                        \/ ~py_in("client_secret", section) THEN
                  StoreResult(dest, "ValueError",
                              <<"Missing client_id or client_secret in ">>,
                              Nothing, 0)
                ELSE write_config(dest, config_data, outcome, newmode)
                : section \in
                    {IF py_truthy(py_get(config_data, "installed"))
                       THEN py_get(config_data, "installed")
                     ELSE py_get(config_data, "web")} })
          : config_data \in {loads(entry[1].doc[1])} })

\* configure(client_id, client_secret, path, project_id): an argument is
\* Nothing when it is None; path is Some(the entry at that path)
configure(dest, client_id, client_secret, path, project_id, outcome, newmode) ==
  IF path # Nothing THEN configure_from_file(dest, path[1], outcome, newmode)
  ELSE IF client_id # Nothing /\ client_secret # Nothing THEN
    configure_from_credentials(dest, client_id[1], client_secret[1],
                               project_id, outcome, newmode)
  ELSE StoreResult(dest, "ValueError",
                   <<"Provide either (client_id, client_secret) or path">>,
                   Nothing, 0)

\* a section of a client_secrets.json document
Section(members) == <<"object", members>>

\* the files a caller points from_file and configure at: none, one that is
\* not JSON, and JSON documents with a complete "installed" or "web"
\* section, with no such section, with a section lacking a key, with empty
\* values, with an empty section, with an empty "installed" beside a
\* complete "web", and the documents [] and null
SourceFiles ==
  { Nothing,
    Some(File(Nothing, 420)) }
  \cup
  { Some(File(Some(doc), 420)) : doc \in
      { <<"object", [installed |->
           Section([client_id |-> <<"string", <<"c">>>>,
                    client_secret |-> <<"string", <<"s">>>>])]>>,
        <<"object", [web |->
           Section([client_id |-> <<"string", <<"c">>>>,
                    client_secret |-> <<"string", <<"s">>>>,
                    token_uri |-> <<"string", <<"https://t">>>>])]>>,
        <<"object", [other |-> Section(<<>>)]>>,
        <<"object", [installed |->
           Section([client_secret |-> <<"string", <<"s">>>>])]>>,
        <<"object", [web |->
           Section([client_id |-> <<"string", <<"c">>>>])]>>,
        <<"object", [installed |->
           Section([client_id |-> <<"string", <<>>>>,
                    client_secret |-> <<"string", <<>>>>])]>>,
        <<"object", [installed |-> Section(<<>>)]>>,
        <<"object", [installed |-> Section(<<>>),
                     web |->
           Section([client_id |-> <<"string", <<"c">>>>,
                    client_secret |-> <<"string", <<"s">>>>])]>>,
        <<"array", <<>>>>,
        <<"null">> } }

\* the client_id / client_secret / project_id arguments: None, "", " ",
\* "c" and " c "
CredentialArgs ==
  {Nothing, Some(<<>>), Some(<<" ">>), Some(<<"c">>), Some(<<" ", "c", " ">>)}

\* process start with nothing or an earlier descriptor at the standard
\* location
InitConfig ==
  /\ now = 0
  /\ constructed = FALSE
  /\ token_data = Nothing
  /\ credentials = Nothing
  /\ last_error = None
  /\ storage = Nothing
  /\ fileBad = FALSE
  /\ CREDENTIALS = Nothing
  /\ aliased = FALSE
  /\ others = FALSE
  /\ calls = 0
  /\ mem = Nothing
  /\ file = Nothing
  /\ saved = [memory |-> Nothing, file |-> Nothing, settled |-> FALSE]
  /\ config_file \in
       { Nothing,
         Some(File(Some(<<"object", [installed |->
                 Section([client_id |-> <<"string", <<"old">>>>,
                          client_secret |-> <<"string", <<"s">>>>])]>>),
               420)) }
  /\ widget = Nothing
  /\ httpd = Nothing
  /\ exchanges = <<>>
  /\ last = Idle

\* one more descriptor operation is made
ConfigOp ==
  /\ calls < MaxConfigOps
  /\ calls' = calls + 1
  /\ UNCHANGED engineVars
  /\ UNCHANGED storeVars
  /\ UNCHANGED <<widget, httpd, exchanges>>

\* tokentoss.configure(client_id, client_secret, path, project_id)
Configure ==
  /\ ConfigOp
  /\ \E path \in {Nothing} \cup {Some(e) : e \in SourceFiles} :
     \E client_id \in (IF path = Nothing THEN CredentialArgs ELSE {Nothing}) :
     \E client_secret \in
          (IF path = Nothing THEN CredentialArgs ELSE {Nothing}) :
     \E project_id \in
          (IF path = Nothing /\ client_id = Some(<<"c">>)
             THEN {Nothing, Some(<<>>), Some(<<"p">>)} ELSE {Nothing}) :
     \E outcome \in StoreSaveOutcomes :
     \E newmode \in (IF config_file = Nothing THEN NewFileModes
                     ELSE {SECURE_PERMISSIONS}) :
     \E r \in {configure(config_file, client_id, client_secret, path, project_id,
                         outcome, newmode)} :
       /\ (outcome # "ok" => r.exc = "StorageError")
       /\ (newmode # SECURE_PERMISSIONS => r.exc \in {None, "StorageError"})
       /\ config_file' = r.store
       /\ last' = [op |-> "configure",
                   arg |-> [client_id |-> client_id,
                            client_secret |-> client_secret,
                            path |-> path, project_id |-> project_id],
                   exc |-> r.exc, msg |-> r.msg, ret |-> r.ret]

\* ClientConfig.from_file(path), the path being that of a source file or
\* the standard location
FromFile ==
  /\ ConfigOp
  /\ \E entry \in SourceFiles \cup {config_file} :
     \E r \in {from_file(entry)} :
       /\ last' = [op |-> "from_file", arg |-> [entry |-> entry],
                   exc |-> r.exc, msg |-> r.msg, ret |-> r.ret]
  /\ UNCHANGED config_file

NextConfig ==
  \/ Configure
  \/ FromFile

SpecConfig == InitConfig /\ [][NextConfig]_vars

(* -------- GoogleAuthWidget and its CallbackServer (widget.py) ---------- *)
\* the number of widget operations and callback requests examined
MaxWidgetOps == 5

\* the first port the operating system hands to CallbackServer.start (0: no
\* port)
Port == 49152

\* the ports the operating system can answer a start with while the widget's
\* server object holds port `held`: none (0), or one that is not the port of
\* the server being replaced
FreePorts(held) == {0, IF held = Port THEN Port + 1 ELSE Port}

\* a state value that no prepare_auth issued
ForgedState == 99

\* the query parameters of a GET to the callback server, as do_GET reads
\* them: code and error are None when absent (parse_qs drops blank values),
\* state is 0 when absent
Query(code, state, error) == [code |-> code, state |-> state, error |-> error]

\* CallbackServer.__init__ (port 0 and state 0 stand for None)
NewCallbackServer ==
  [port |-> 0, auth_code |-> None, state |-> 0, error |-> None,
   callback_received |-> FALSE]

\* the HTTPServer CallbackServer.start creates: its four result attributes,
\* the request its handler thread is serving (Nothing when idle), how many of
\* do_GET's four attribute writes that handler has done, and the query of the
\* last request served to the end (history)
NewServer ==
  [auth_code |-> None, state |-> 0, error |-> None,
   callback_received |-> FALSE, request |-> Nothing, written |-> 0,
   served |-> Nothing]

\* the widget's side of the process as one value: the engine's state, the
\* widget, the HTTP server and the exchange calls made
Ui(s, w, h, x) == [s |-> s, w |-> w, h |-> h, x |-> x]

\* _CallbackHandler.do_GET, up to its n-th write to the server's attributes
\* (self.server.auth_code, .state, .error, .callback_received, in that order)
do_GET(h, n) ==
  IF h.request = Nothing \/ n <= h.written THEN h
  ELSE
    The({[auth_code |-> IF h.written < 1 /\ 1 <= n THEN q.code ELSE h.auth_code,
          state |-> IF h.written < 2 /\ 2 <= n THEN q.state ELSE h.state,
          error |-> IF h.written < 3 /\ 3 <= n THEN q.error ELSE h.error,
          callback_received |-> IF 4 <= n THEN TRUE ELSE h.callback_received,
          request |-> IF 4 <= n THEN Nothing ELSE h.request,
          written |-> IF 4 <= n THEN 0 ELSE n,
          served |-> IF 4 <= n THEN h.request ELSE h.served] :
         q \in {h.request[1]}})

\* how far the handler thread can be at each of four successive statements of
\* the main thread: i[k] of the handler's writes are done when the main
\* thread executes its k-th statement (no lock orders the two threads).  What
\* the k-th statement reads or overwrites depends only on whether the
\* handler's k-th write came before it, so the handler is taken to be either
\* where it was at the previous statement or just past its k-th write
Interleavings(hd) ==
  IF hd = Nothing \/ hd[1].request = Nothing THEN {<<0, 0, 0, 0>>}
  ELSE {i \in (hd[1].written .. 4) \X (hd[1].written .. 4)
                \X (hd[1].written .. 4) \X (hd[1].written .. 4) :
          /\ i[1] = hd[1].written \/ (i[1] = 1 /\ hd[1].written < 1)
          /\ i[2] = i[1] \/ (i[2] = 2 /\ i[1] < 2)
          /\ i[3] = i[2] \/ (i[3] = 3 /\ i[2] < 3)
          /\ i[4] = i[3] \/ (i[4] = 4 /\ i[3] < 4)}

\* CallbackServer.redirect_uri
redirect_uri(cs) ==
  IF cs.port # 0 THEN <<"http://127.0.0.1:", cs.port>> ELSE <<"http://localhost">>

\* CallbackServer.check_callback: the four attributes are copied from the
\* server one after the other; returns self.callback_received (in .w.cs)
check_callback(u, i) ==
  IF u.h = Nothing THEN u
  ELSE [u EXCEPT !.w.cs.auth_code = do_GET(u.h[1], i[1]).auth_code,
                 !.w.cs.state = do_GET(u.h[1], i[2]).state,
                 !.w.cs.error = do_GET(u.h[1], i[3]).error,
                 !.w.cs.callback_received = do_GET(u.h[1], i[4]).callback_received,
                 !.h = Some(do_GET(u.h[1], i[4]))]

\* CallbackServer.reset: the object's four attributes, then the server's four
\* attributes, are cleared one after the other; a write of the handler that
\* comes after the clearing of its attribute stays
reset(u, i) ==
  The({ IF u.h = Nothing THEN [u EXCEPT !.w.cs = cleared]
        ELSE The({[u EXCEPT
               !.w.cs = cleared,
               !.h = Some([h4 EXCEPT
                  !.auth_code = IF i[1] < 1 /\ 1 <= i[4] THEN @ ELSE None,
                  !.state = IF i[2] < 2 /\ 2 <= i[4] THEN @ ELSE 0,
                  !.error = IF i[3] < 3 /\ 3 <= i[4] THEN @ ELSE None,
                  !.callback_received = FALSE])] :
              h4 \in {do_GET(u.h[1], i[4])}}) :
        cleared \in {[u.w.cs EXCEPT !.auth_code = None, !.state = 0,
                                    !.error = None,
                                    !.callback_received = FALSE]}})

\* CallbackServer.stop: the results are copied from the server (the request
\* being served is served to the end by shutdown), the server is shut down
stop(u) ==
  IF u.h = Nothing THEN u
  ELSE The({[u EXCEPT !.w.cs.auth_code = h4.auth_code,
                      !.w.cs.state = h4.state,
                      !.w.cs.error = h4.error,
                      !.w.cs.callback_received = h4.callback_received,
                      !.h = Nothing] :
            h4 \in {do_GET(u.h[1], 4)}})

\* CallbackServer.start; port: the port that could be bound for the new
\* server (0: none, the server is not made)
start(u, port) ==
  IF port # 0 THEN [u EXCEPT !.w.cs.port = port, !.h = Some(NewServer)]
  ELSE [u EXCEPT !.w.cs.port = 0, !.h = Nothing]

\* GoogleAuthWidget._try_start_server
try_start_server(u, port) ==
  The({[u2 EXCEPT !.w.server_available = (port # 0)] :
       u2 \in {start([stop(u) EXCEPT !.w.cs = NewCallbackServer], port)}})

\* AuthManager.user_email (property)
user_email(s) ==
  IF s.token_data # Nothing THEN s.token_data[1].user_email ELSE None

\* generate_pkce_pair: the code challenge of a verifier
code_challenge(verifier) == <<"S256", verifier>>

\* AuthManager.get_authorization_url: the parameters of the URL that vary
get_authorization_url(challenge, redirect, state) ==
  [code_challenge |-> challenge, redirect_uri |-> redirect] @@
  (IF state # 0 THEN [state |-> state] ELSE <<>>)

\* the manual input stays on display
MutSetAuthenticatedKeepsManualInput(u) ==
  The({[u EXCEPT !.w.is_authenticated = TRUE,
                 !.w.user_email = email,
                 !.w.status = IF email # "" THEN <<"Signed in as ", email>>
                              ELSE <<"Signed in">>,
                 !.w.error = <<>>,
                 !.w.code_verifier = 0] :
       email \in {IF Truthy(user_email(u.s)) THEN user_email(u.s) ELSE ""}})

\* GoogleAuthWidget._set_authenticated_state
set_authenticated_state(u) ==
  The({[u EXCEPT !.w.is_authenticated = TRUE,
                 !.w.user_email = email,
                 !.w.status = IF email # "" THEN <<"Signed in as ", email>>
                              ELSE <<"Signed in">>,
                 !.w.error = <<>>,
                 !.w.show_manual_input = FALSE,
                 !.w.code_verifier = 0] :
       email \in {IF Truthy(user_email(u.s)) THEN user_email(u.s) ELSE ""}})

\* an exchange_code call of the widget: its arguments and whether it
\* returned (it raised TokenExchangeError otherwise)
ExchangeCall(auth_code, verifier, redirect, returned) ==
  [auth_code |-> auth_code, code_verifier |-> verifier,
   redirect_uri |-> redirect, returned |-> returned]

\* the except clause keeps the verifier after a failed exchange
MutExchangeKeepsVerifierOnFailure(u, t, auth_code, redirect, resp, outcome) ==
  IF u.w.code_verifier = 0 THEN
    [u EXCEPT !.w.error = <<"No code verifier - please try signing in again">>,
              !.w.status = <<"Authentication failed">>]
  ELSE
    The({ IF r.exc = None THEN
            set_authenticated_state(
              [u EXCEPT !.s = r.s,
                        !.x = Append(@, ExchangeCall(auth_code,
                                                     u.w.code_verifier,
                                                     redirect, TRUE))])
          ELSE
            [u EXCEPT !.s = r.s,
                      !.x = Append(@, ExchangeCall(auth_code,
                                                   u.w.code_verifier,
                                                   redirect, FALSE)),
                      !.w.error = r.msg,
                      !.w.status = <<"Authentication failed">>] :
          r \in {exchange_code(u.s, t, resp, outcome)}})

\* GoogleAuthWidget._exchange_code; resp and outcome are the token
\* endpoint's and the disk's answers to AuthManager.exchange_code
w_exchange_code(u, t, auth_code, redirect, resp, outcome) ==
  IF u.w.code_verifier = 0 THEN
    [u EXCEPT !.w.error = <<"No code verifier - please try signing in again">>,
              !.w.status = <<"Authentication failed">>]
  ELSE
    The({ IF r.exc = None THEN
            set_authenticated_state(
              [u EXCEPT !.s = r.s,
                        !.x = Append(@, ExchangeCall(auth_code,
                                                     u.w.code_verifier,
                                                     redirect, TRUE))])
          ELSE
            [u EXCEPT !.s = r.s,
                      !.x = Append(@, ExchangeCall(auth_code,
                                                   u.w.code_verifier,
                                                   redirect, FALSE)),
                      !.w.error = r.msg,
                      !.w.status = <<"Authentication failed">>,
                      !.w.code_verifier = 0] :
          r \in {exchange_code(u.s, t, resp, outcome)}})

\* GoogleAuthWidget.prepare_auth; the PKCE verifier and the state are fresh
\* random tokens: the n-th of each is n
prepare_auth(u, i) ==
  The({[u1 EXCEPT
          !.w.code_verifier = n,
          !.w.state = n,
          !.w.issued = n,
          !.w.show_manual_input = ~u1.w.server_available,
          !.w.auth_url =
             Some(get_authorization_url(
                    code_challenge(n),
                    IF u1.w.server_available THEN redirect_uri(u1.w.cs)
                    ELSE <<"http://localhost">>,
                    n)),
          !.w.status = <<"Waiting for authentication...">>,
          !.w.error = <<>>] :
       u1 \in {reset(u, i)}, n \in {u.w.issued + 1}})

\* a state value came with the code and it is not the one issued, yet it is
\* rejected only if a state was issued
MutInvalidStateAcceptsUnissued(received, issued) ==
  received # 0 /\ issued # 0 /\ received # issued

\* the state test of _check_callback and _on_auth_code_change
\* (`received and received != self.state`)
invalid_state(received, issued) == received # 0 /\ received # issued

\* GoogleAuthWidget._check_callback (the check_callback message)
w_check_callback(u, t, i, resp, outcome, port) ==
  The({ IF u1.w.cs.callback_received THEN
          IF Truthy(u1.w.cs.error) THEN
            try_start_server(
              [u1 EXCEPT !.w.error = <<"Authentication error: ", u1.w.cs.error>>,
                         !.w.status = <<"Authentication failed">>,
                         !.w.code_verifier = 0], port)
          ELSE IF Truthy(u1.w.cs.auth_code) THEN
            IF invalid_state(u1.w.cs.state, u1.w.state) THEN
              [u1 EXCEPT !.w.error = <<"Invalid state - possible CSRF attack">>,
                         !.w.status = <<"Authentication failed">>,
                         !.w.code_verifier = 0]
            ELSE
              try_start_server(
                w_exchange_code(u1, t, u1.w.cs.auth_code,
                                redirect_uri(u1.w.cs), resp, outcome), port)
          ELSE
            try_start_server(
              [u1 EXCEPT !.w.status = <<"Click to sign in">>,
                         !.w.code_verifier = 0], port)
        ELSE
          [u1 EXCEPT !.w.show_manual_input = TRUE,
                     !.w.status = <<"Paste the redirect URL below">>] :
        u1 \in {check_callback(u, i)}})

\* a pasted code is always exchanged with the manual redirect URI, whatever
\* the authorization URL named
MutPasteAlwaysLocalhost(u, t, resp, outcome) ==
  IF u.w.auth_code = "" THEN u
  ELSE IF invalid_state(u.w.received_state, u.w.state) THEN
    [u EXCEPT !.w.error = <<"Invalid state - possible CSRF attack">>,
              !.w.status = <<"Authentication failed">>,
              !.w.code_verifier = 0,
              !.w.auth_code = ""]
  ELSE
    [w_exchange_code(u, t, u.w.auth_code, <<"http://localhost">>, resp, outcome)
       EXCEPT !.w.auth_code = ""]

\* GoogleAuthWidget._on_auth_code_change, run when the front end has set
\* auth_code (and, for a pasted URL, received_state)
on_auth_code_change(u, t, resp, outcome) ==
  IF u.w.auth_code = "" THEN u
  ELSE IF invalid_state(u.w.received_state, u.w.state) THEN
    [u EXCEPT !.w.error = <<"Invalid state - possible CSRF attack">>,
              !.w.status = <<"Authentication failed">>,
              !.w.code_verifier = 0,
              !.w.auth_code = ""]
  ELSE
    [w_exchange_code(u, t, u.w.auth_code,
                     IF u.w.server_available THEN redirect_uri(u.w.cs)
                     ELSE <<"http://localhost">>, resp, outcome)
       EXCEPT !.w.auth_code = ""]

\* GoogleAuthWidget.sign_out; returns the new state and the exception class
\* (AuthManager.clear's StorageError passes through, before any trait is
\* touched)
sign_out(u, unlink_ok) ==
  The({ IF r.exc # None THEN [u |-> [u EXCEPT !.s = r.s], exc |-> r.exc]
        ELSE [u |-> [u EXCEPT !.s = r.s,
                              !.w.is_authenticated = FALSE,
                              !.w.user_email = "",
                              !.w.status = <<"Click to sign in">>,
                              !.w.error = <<>>,
                              !.w.auth_code = "",
                              !.w.auth_url = Nothing,
                              !.w.show_manual_input = FALSE,
                              !.w.code_verifier = 0],
              exc |-> None] :
        r \in {clear(u.s, unlink_ok)}})

\* GoogleAuthWidget.__init__ over the engine state s: the traits' defaults,
\* a new AuthManager, the callback server, the signed-in display if the
\* token file held a record
new_widget(s, port) ==
  The({ IF is_authenticated(u.s) THEN set_authenticated_state(u) ELSE u :
        u \in {try_start_server(
                 Ui(load_from_storage(s),
                    [auth_url |-> Nothing, auth_code |-> "",
                     received_state |-> 0, state |-> 0,
                     status |-> <<"Click to sign in">>, error |-> <<>>,
                     user_email |-> "", is_authenticated |-> FALSE,
                     show_manual_input |-> FALSE, code_verifier |-> 0,
                     server_available |-> FALSE, cs |-> NewCallbackServer,
                     issued |-> 0],
                    Nothing, <<>>),
                 port)}})

\* the token endpoint's answers to the widget's exchange_code call: tokens
\* for alice, tokens for bob, a refusal
WidgetResponses ==
  { Ok("at1", "h.A.s", "rt1", <<>>, None),
    Ok("at2", "h.B.s", "rt2", <<ShortExpiresIn>>, "openid email"),
    Err("json", "invalid_grant", "Bad Request") }

\* the disk's answers to the save of the exchanged record
WidgetSaveOutcomes == {"ok", "fail_untouched"}

\* the authorization codes that reach the widget
AuthCodes == {"c1"}

\* the process as the widget's operations see it
TheUi == Ui(State, widget[1], httpd, exchanges)

\* the engine, the widget, the server and the exchange history become u
WidgetBecomes(u) ==
  /\ token_data' = u.s.token_data
  /\ credentials' = u.s.credentials
  /\ last_error' = u.s.last_error
  /\ storage' = u.s.storage
  /\ fileBad' = u.s.fileBad
  /\ CREDENTIALS' = u.s.CREDENTIALS
  /\ aliased' = u.s.aliased
  /\ widget' = Some(u.w)
  /\ httpd' = u.h
  /\ exchanges' = u.x
  /\ UNCHANGED <<now, constructed, others, config_file>>
  /\ UNCHANGED storeVars

\* one more message, trait change or callback request reaches the process
WidgetOp ==
  /\ calls < MaxWidgetOps
  /\ calls' = calls + 1

\* the log entry of a widget operation
WidgetLog(op, arg, exc) == [op |-> op, arg |-> arg, exc |-> exc]

\* a notebook process in which GoogleAuthWidget(...) has just been
\* constructed: the token file was absent or held a record of an earlier
\* process; the callback server started or failed to
InitWidget ==
  /\ now = 0
  /\ constructed = TRUE
  /\ others = FALSE
  /\ calls = 0
  /\ mem = Nothing
  /\ file = Nothing
  /\ saved = [memory |-> Nothing, file |-> Nothing, settled |-> FALSE]
  /\ config_file = Nothing
  /\ \E found \in {Nothing, Some(TokenData("at1", "h.A.s", "rt1",
                                            DefaultExpiresIn, DEFAULT_SCOPES,
                                            "alice@example.com"))} :
     \E port \in FreePorts(0) :
       /\ \E u \in {new_widget([token_data |-> Nothing, credentials |-> Nothing,
                                last_error |-> None, storage |-> found,
                                fileBad |-> FALSE, CREDENTIALS |-> Nothing,
                                aliased |-> FALSE], port)} :
            /\ token_data = u.s.token_data
            /\ credentials = u.s.credentials
            /\ last_error = u.s.last_error
            /\ storage = u.s.storage
            /\ fileBad = u.s.fileBad
            /\ CREDENTIALS = u.s.CREDENTIALS
            /\ aliased = u.s.aliased
            /\ widget = Some(u.w)
            /\ httpd = u.h
            /\ exchanges = u.x
  /\ last = WidgetLog("construct", Nothing, None)

\* the front end sends {type: "prepare_auth"} (the sign-in button)
PrepareAuth ==
  /\ WidgetOp
  /\ \E i \in Interleavings(httpd) : WidgetBecomes(prepare_auth(TheUi, i))
  /\ last' = WidgetLog("prepare_auth", Nothing, None)

\* the queries a browser can send to the callback server: the provider's
\* redirect with a code (carrying the state issued last, another state or
\* none), its redirect with an error, a request for another resource of the
\* origin (/favicon.ico)
Queries ==
  {Query(code, state, None) :
     code \in AuthCodes, state \in {widget[1].state, ForgedState, 0}}
  \cup {Query(None, widget[1].state, "access_denied"), Query(None, 0, None)}

\* a GET reaches the callback server and its handler thread starts on it
Get ==
  /\ WidgetOp
  /\ httpd # Nothing
  /\ httpd[1].request = Nothing
  /\ \E q \in Queries :
       /\ httpd' = Some([httpd[1] EXCEPT !.request = Some(q), !.written = 0])
       /\ last' = WidgetLog("GET", q, None)
  /\ UNCHANGED <<now, constructed, token_data, credentials, last_error,
                 storage, fileBad, CREDENTIALS, aliased, others>>
  /\ UNCHANGED storeVars
  /\ UNCHANGED <<config_file, widget, exchanges>>

\* the handler thread does the rest of do_GET's writes with no statement of
\* the main thread in between (the main thread's statements that fall between
\* two writes are those of PrepareAuth and CheckCallback)
HandlerStep ==
  /\ httpd # Nothing
  /\ httpd[1].request # Nothing
  /\ httpd' = Some(do_GET(httpd[1], 4))
  /\ last' = WidgetLog("do_GET", httpd[1].request[1], None)
  /\ UNCHANGED <<now, constructed, token_data, credentials, last_error,
                 storage, fileBad, CREDENTIALS, aliased, others, calls>>
  /\ UNCHANGED storeVars
  /\ UNCHANGED <<config_file, widget, exchanges>>

\* _check_callback or _on_auth_code_change, having reached state u, goes on
\* to call AuthManager.exchange_code
Exchanges(u, state) ==
  /\ ~invalid_state(state, u.w.state)
  /\ u.w.code_verifier # 0

\* the answers that matter to an exchange_code call, if one is made
ExchangeAnswers(exchanging) ==
  IF exchanging THEN {a \in WidgetResponses \X WidgetSaveOutcomes :
                        a[2] \in SaveOutcomesFor(a[1])}
  ELSE {<<NetFail, "ok">>}

\* the front end sends {type: "check_callback"} (the popup was closed)
CheckCallback ==
  /\ WidgetOp
  /\ \E i \in Interleavings(httpd) : \E u1 \in {check_callback(TheUi, i)} :
     \E a \in ExchangeAnswers(/\ u1.w.cs.callback_received
                              /\ ~Truthy(u1.w.cs.error)
                              /\ Truthy(u1.w.cs.auth_code)
                              /\ Exchanges(u1, u1.w.cs.state)) :
     \E port \in IF u1.w.cs.callback_received
                       /\ (Truthy(u1.w.cs.error) \/ ~Truthy(u1.w.cs.auth_code)
                           \/ ~invalid_state(u1.w.cs.state, u1.w.state))
                    THEN FreePorts(u1.w.cs.port) ELSE {Port} :
       /\ WidgetBecomes(w_check_callback(TheUi, now, i, a[1], a[2], port))
       /\ last' = WidgetLog("check_callback",
                            [seen |-> u1.w.cs,
                             served |-> IF u1.h = Nothing THEN Nothing
                                        ELSE u1.h[1].served,
                             resp |-> a[1], outcome |-> a[2]], None)

\* the front end sets auth_code from the manual input: a pasted redirect URL
\* (pasted = Some(state), and received_state is set to it) or a raw code
\* (pasted = Nothing)
Paste ==
  /\ WidgetOp
  /\ \E code \in AuthCodes :
     \E pasted \in {Nothing} \cup
                   {Some(state) : state \in {widget[1].state, ForgedState}} :
     \E u0 \in {[TheUi EXCEPT !.w.auth_code = code,
                              !.w.received_state =
                                 IF pasted = Nothing THEN @ ELSE pasted[1]]} :
     \E a \in ExchangeAnswers(Exchanges(u0, u0.w.received_state)) :
       /\ WidgetBecomes(on_auth_code_change(u0, now, a[1], a[2]))
       /\ last' = WidgetLog("paste",
                            [code |-> code, pasted |-> pasted,
                             received_state |-> u0.w.received_state,
                             resp |-> a[1], outcome |-> a[2]], None)

\* the front end sends {type: "sign_out"}
SignOut ==
  /\ WidgetOp
  /\ \E unlink_ok \in IF storage # Nothing \/ fileBad THEN BOOLEAN ELSE {TRUE} :
     \E r \in {sign_out(TheUi, unlink_ok)} :
       /\ WidgetBecomes(r.u)
       /\ last' = WidgetLog("sign_out", unlink_ok, r.exc)

NextWidget ==
  \/ PrepareAuth
  \/ Get
  \/ HandlerStep
  \/ CheckCallback
  \/ Paste
  \/ SignOut

SpecWidget == InitWidget /\ [][NextWidget]_vars

(* ============================ properties =============================== *)
\* the inputs of the request the log is about
ReqArg == last.arg[1]

\* C1: a 401 followed by a forced resolution that yields a new token leads to
\* exactly one more transport call, carrying the new token; the two calls
\* carry different bearer tokens and the second response is what the caller
\* gets.
C1_Retry401SendsNewToken ==
  (/\ last.op = "request"
   /\ Len(last.chains) = 2
   /\ ReqArg.status1 = 401
   /\ last.chains[2].exc = None
   /\ last.chains[2].token # last.sent[1])
  => /\ Len(last.sent) = 2
     /\ last.sent[2] = last.chains[2].token
     /\ last.sent[1] # last.sent[2]
     /\ last.exc = None
     /\ ReqArg.status2 # 0 => last.ret = Some(Response(2, ReqArg.status2))

C1_Witness ==
  /\ last.op = "request"
  /\ ReqArg.status1 = 401
  /\ Len(last.sent) = 2
  /\ last.sent[1] # last.sent[2]
  /\ last.ret = Some(Response(2, 200))

\* C2: a 401 whose retry path fails (the forced resolution raises, or the
\* second transport call raises) gives the caller the original 401 response
\* and no exception; when the resolution itself failed the transport was
\* called exactly once.
C2_Retry401FailureReturnsOriginal ==
  (/\ last.op = "request"
   /\ Len(last.chains) = 2
   /\ ReqArg.status1 = 401
   /\ (last.chains[2].exc # None \/ ReqArg.status2 = 0))
  => /\ last.exc = None
     /\ last.ret = Some(Response(1, 401))
     /\ last.chains[2].exc # None => Len(last.sent) = 1

C2_Witness ==
  /\ last.op = "request"
  /\ Len(last.chains) = 2
  /\ last.chains[2].exc = "NoCredentialsError"
  /\ last.ret = Some(Response(1, 401))
  /\ Len(last.sent) = 1

\* C3: a request calls the transport at most twice; a first response other
\* than 401 is returned after one call and one unforced resolution; a 401 on
\* the retry is returned as it is.
C3_AtMostOneRetry ==
  last.op = "request" =>
    /\ Len(last.sent) <= 2
    /\ (Len(last.sent) >= 1 /\ ReqArg.status1 \notin {0, 401})
         => /\ last.exc = None
            /\ last.ret = Some(Response(1, ReqArg.status1))
            /\ Len(last.sent) = 1
            /\ Len(last.chains) = 1
            /\ ~last.chains[1].force_refresh
    /\ (Len(last.sent) = 2 /\ ReqArg.status2 = 401)
         => /\ last.exc = None
            /\ last.ret = Some(Response(2, 401))

C3_Witness ==
  /\ last.op = "request"
  /\ Len(last.sent) = 2
  /\ ReqArg.status2 = 401
  /\ last.ret = Some(Response(2, 401))

\* the fixed order of the discovery sources
SourceOrder == <<"auth_manager", "module_credentials", "storage">>

\* a source yielded nothing: it returned None or an empty token
YieldedNothing(y) == y = None \/ y = ""

\* one logged resolution respects the discovery order
ChainInOrder(c) ==
  LET n == Len(c.consulted)
      y == c.consulted[n].yielded
  IN /\ n \in 1 .. 3
     /\ \A i \in 1 .. n : c.consulted[i].source = SourceOrder[i]
     /\ \A i \in 1 .. (n - 1) : YieldedNothing(c.consulted[i].yielded)
     /\ (c.exc = None) <=> (~YieldedNothing(y) /\ y # "raise")
     /\ (c.exc = None) => c.token = y
     /\ (c.exc = "NoCredentialsError") <=> (n = 3 /\ YieldedNothing(y))

\* what the three sources hold in the current state, read without refresh
SourceToken(am) ==
  IF am /\ token_data # Nothing /\ ~YieldedNothing(token_data[1].id_token)
    THEN token_data[1].id_token
  ELSE IF CREDENTIALS # Nothing /\ ~YieldedNothing(CREDENTIALS[1].id_token)
    THEN CREDENTIALS[1].id_token
  ELSE IF ~fileBad /\ storage # Nothing /\ now < storage[1].expiry * TicksPerSecond
          /\ storage[1].id_token # ""
    THEN storage[1].id_token
  ELSE None

\* C4: every resolution consults the sources in the order engine, handle,
\* token file, moves on only past sources that yielded nothing and returns
\* the first token found; with nothing found it raises NoCredentialsError,
\* and the request raises it with no transport call.  A request that causes
\* no refresh sends the token of the first source holding one.
C4_DiscoveryOrder ==
  last.op = "request" =>
    /\ \A k \in 1 .. Len(last.chains) : ChainInOrder(last.chains[k])
    /\ (Len(last.chains) >= 1 /\ last.chains[1].exc = None)
         => (Len(last.sent) >= 1 /\ last.sent[1] = last.chains[1].token)
    /\ (Len(last.chains) >= 1 /\ last.chains[1].exc = "NoCredentialsError")
         => (last.exc = "NoCredentialsError" /\ last.sent = <<>>)
    /\ (Len(last.chains) >= 1 /\ last.posts = 0)
         => /\ \A k \in 1 .. Len(last.sent) : last.sent[k] = SourceToken(ReqArg.am)
            /\ last.sent = <<>> => SourceToken(ReqArg.am) = None

C4_Witness ==
  /\ last.op = "request"
  /\ Len(last.chains) >= 1
  /\ Len(last.chains[1].consulted) = 3
  /\ last.chains[1].exc = None
  /\ Len(last.sent) >= 1

\* the answer of the token endpoint the log is about
RespArg == last.arg[1]

\* the email claim in the payload of the ID tokens of the model
EmailClaim(idt) ==
  CASE idt = "h.A.s" -> "alice@example.com"
    [] idt = "h.B.s" -> "bob@example.com"
    [] OTHER -> None

\* the lifetime an answer announces, in seconds
Lifetime(resp) ==
  IF resp.expires_in = <<>> THEN DefaultExpiresIn ELSE resp.expires_in[1]

\* what exchange_code leaves behind when it returns the record td, apart from
\* the expiry
ExchangeSuccess(td, resp) ==
  /\ resp.status = 200
  /\ td.access_token = resp.access_token
  /\ td.id_token = (IF resp.id_token = None THEN "" ELSE resp.id_token)
  /\ td.refresh_token = (IF resp.refresh_token = None THEN ""
                         ELSE resp.refresh_token)
  /\ td.user_email = EmailClaim(resp.id_token)
  /\ now < td.expiry * TicksPerSecond
  /\ token_data = Some(td)
  /\ storage = Some(td) /\ ~fileBad
  /\ credentials # Nothing
  /\ CREDENTIALS = credentials /\ aliased
  /\ CREDENTIALS[1].id_token = td.id_token
  /\ CREDENTIALS[1].token = td.access_token
  /\ last_error = None

\* C5 as stated: a returned record has expiry = now + expires_in (3600 when
\* absent), is not expired, carries the provider's tokens and the decoded
\* email, equals the stored record, and the handle is set, last_error
\* cleared, the engine authenticated.
C5_ExchangeSuccessExactExpiry ==
  (last.op = "exchange_code" /\ last.exc = None)
  => /\ ExchangeSuccess(last.ret[1], RespArg)
     /\ last.ret[1].expiry * TicksPerSecond
          = now + Lifetime(RespArg) * TicksPerSecond

\* C5 (amended): as stated, with expiry = now + expires_in cut down to the
\* whole second.
C5_ExchangeSuccess ==
  (last.op = "exchange_code" /\ last.exc = None)
  => /\ ExchangeSuccess(last.ret[1], RespArg)
     /\ last.ret[1].expiry * TicksPerSecond
          <= now + Lifetime(RespArg) * TicksPerSecond
     /\ (last.ret[1].expiry + 1) * TicksPerSecond
          > now + Lifetime(RespArg) * TicksPerSecond

C5_Witness ==
  /\ last.op = "exchange_code"
  /\ last.exc = None
  /\ last.ret[1].user_email = "bob@example.com"
  /\ RespArg.expires_in # <<>>
  /\ now % TicksPerSecond # 0

\* C6: a non-200 answer to exchange_code raises TokenExchangeError with the
\* provider's error_description, else its error code, in the message, and
\* leaves the store, the handle and the engine's record and credentials as
\* they were.
C6_ExchangeRejected ==
  [][(/\ last.op = "idle"
      /\ last'.op = "exchange_code"
      /\ last'.arg[1].status \notin {0, 200})
     => /\ last'.exc = "TokenExchangeError"
        /\ (last'.arg[1].content = "json"
              /\ last'.arg[1].error_description # None)
             => last'.msg = <<"Token exchange failed: ",
                              last'.arg[1].error_description>>
        /\ (last'.arg[1].content = "json"
              /\ last'.arg[1].error_description = None
              /\ last'.arg[1].error # None)
             => last'.msg = <<"Token exchange failed: ", last'.arg[1].error>>
        /\ UNCHANGED <<storage, fileBad, CREDENTIALS, aliased, token_data,
                       credentials>>]_vars

C6_Witness ==
  /\ last.op = "exchange_code"
  /\ last.exc = "TokenExchangeError"
  /\ RespArg.status = 400
  /\ RespArg.error_description # None
  /\ last.msg = <<"Token exchange failed: ", "Bad Request">>
  /\ credentials # Nothing

\* C7: a refresh that returns leaves one and the same new record in memory,
\* in the store and (as credentials) in the handle, with the answer's access
\* token and an expiry computed from now; refresh_token and user_email are
\* the prior record's when the answer omits them.
C7_RefreshSuccess ==
  [][(/\ last.op = "idle"
      /\ last'.op = "refresh_tokens"
      /\ last'.exc = None)
     => /\ token_data' # Nothing
        /\ last'.ret = token_data'
        /\ storage' = token_data' /\ ~fileBad'
        /\ credentials' # Nothing
        /\ CREDENTIALS' = credentials' /\ aliased'
        /\ CREDENTIALS'[1].token = token_data'[1].access_token
        /\ CREDENTIALS'[1].id_token = token_data'[1].id_token
        /\ CREDENTIALS'[1].refresh_token = token_data'[1].refresh_token
        /\ token_data'[1].access_token = last'.arg[1].access_token
        /\ token_data'[1].expiry * TicksPerSecond
             <= now + Lifetime(last'.arg[1]) * TicksPerSecond
        /\ (token_data'[1].expiry + 1) * TicksPerSecond
             > now + Lifetime(last'.arg[1]) * TicksPerSecond
        /\ last'.arg[1].refresh_token = None
             => token_data'[1].refresh_token = token_data[1].refresh_token
        /\ last'.arg[1].refresh_token # None
             => token_data'[1].refresh_token = last'.arg[1].refresh_token
        /\ last'.arg[1].id_token = None
             => token_data'[1].user_email = token_data[1].user_email]_vars

C7_Witness ==
  /\ last.op = "refresh_tokens"
  /\ last.exc = None
  /\ RespArg.refresh_token = None
  /\ RespArg.id_token = None
  /\ token_data[1].refresh_token = "rt1"
  /\ token_data[1].user_email = "alice@example.com"
  /\ token_data[1].access_token = "at2"

\* C8: a refresh the provider rejects, or whose transport fails, raises
\* TokenRefreshError and leaves the engine's record and credentials, the
\* store and the handle as they were.
C8_RefreshFailurePreserves ==
  [][(/\ last.op = "idle"
      /\ last'.op = "refresh_tokens"
      /\ last'.posts = 1
      /\ last'.arg[1].status # 200)
     => /\ last'.exc = "TokenRefreshError"
        /\ UNCHANGED <<token_data, credentials, storage, fileBad,
                       CREDENTIALS, aliased>>
        /\ credentials' # Nothing]_vars

C8_Witness ==
  /\ last.op = "refresh_tokens"
  /\ last.exc = "TokenRefreshError"
  /\ last.posts = 1
  /\ RespArg.status = 400
  /\ credentials # Nothing
  /\ token_data # Nothing
  /\ storage = token_data

\* C9: refresh_tokens without a record, or with a record whose refresh_token
\* is empty, raises TokenRefreshError, does not contact the token endpoint
\* and changes nothing.
C9_RefreshWithoutRefreshToken ==
  [][(/\ last.op = "idle"
      /\ last'.op = "refresh_tokens"
      /\ (token_data = Nothing \/ token_data[1].refresh_token = ""))
     => /\ last'.exc = "TokenRefreshError"
        /\ last'.posts = 0
        /\ UNCHANGED <<token_data, credentials, storage, fileBad,
                       CREDENTIALS, aliased, last_error>>]_vars

C9_Witness ==
  /\ last.op = "refresh_tokens"
  /\ last.exc = "TokenRefreshError"
  /\ last.posts = 0
  /\ token_data # Nothing
  /\ token_data[1].refresh_token = ""
  /\ storage = token_data

\* C10: a read of .credentials never raises; without a record it returns
\* None; with an unexpired record it refreshes nothing; with an expired one
\* it makes one refresh attempt, and when that attempt fails the credentials
\* returned are the ones held before and the record is unchanged.
C10_CredentialsStaleButAvailable ==
  [][(last.op = "idle" /\ last'.op = "credentials")
     => /\ last'.exc = None
        /\ credentials = Nothing
             => (last'.ret = Nothing /\ last'.posts = 0)
        /\ (credentials # Nothing /\ token_data # Nothing
              /\ now < token_data[1].expiry * TicksPerSecond)
             => /\ last'.posts = 0
                /\ last'.ret = credentials
                /\ UNCHANGED <<token_data, credentials, storage, CREDENTIALS>>
        /\ (credentials # Nothing /\ token_data # Nothing
              /\ now >= token_data[1].expiry * TicksPerSecond)
             => /\ last'.posts <= 1
                /\ token_data[1].refresh_token # "" => last'.posts = 1
                /\ last'.msg # <<>>
                     => /\ last'.ret = credentials
                        /\ token_data' = token_data]_vars

\* the state clear() promises: no record in the engine, no token file
\* (load returns absent, exists is false), no process-wide handle
Cleared ==
  /\ token_data = Nothing
  /\ credentials = Nothing
  /\ storage = Nothing
  /\ ~fileBad
  /\ CREDENTIALS = Nothing

\* C11: whatever the engine's state was, once clear() has returned the engine
\* holds no record, the store holds none and the handle is absent; and
\* nothing but an exchange_code that returns takes the process out of that
\* state, so is_authenticated stays false until a later successful exchange.
C11_ClearThenUnauthenticated ==
  [][ /\ (last'.op = "clear" /\ last'.exc = None => Cleared')
      /\ (Cleared /\ ~(last'.op = "exchange_code" /\ last'.exc = None)
            => Cleared' /\ ~is_authenticated(State)') ]_vars

\* C12: constructing an AuthManager never raises and never contacts the
\* token endpoint.  Over a token file that holds a record (expired or not)
\* the engine is authenticated with exactly that record; over a file that
\* cannot be loaded the engine is unauthenticated and last_error holds the
\* StorageError; over no file the engine is unauthenticated.  The store is
\* left as it was.
C12_EngineInitialization ==
  [][ last'.op = "construct" =>
        /\ last'.exc = None
        /\ last'.posts = 0
        /\ storage' = storage
        /\ fileBad' = fileBad
        /\ IF fileBad THEN
             /\ ~is_authenticated(State)'
             /\ token_data' = Nothing
             /\ last_error' = "StorageError"
           ELSE IF storage # Nothing THEN
             /\ is_authenticated(State)'
             /\ token_data' = storage
             /\ credentials'[1].token = storage[1].access_token
             /\ credentials'[1].id_token = storage[1].id_token
             /\ credentials'[1].refresh_token = storage[1].refresh_token
             /\ last_error' = None
           ELSE
             /\ ~is_authenticated(State)'
             /\ token_data' = Nothing
             /\ last_error' = None ]_vars

\* an engine was just constructed over a record whose expiry has passed
C12_Witness ==
  /\ last.op = "construct"
  /\ token_data # Nothing
  /\ is_expired(token_data[1], now)
  /\ is_authenticated(State)

\* the step is a call in which exchange_code or refresh_tokens returned:
\* called directly, by the .credentials accessor, or by a client's forced
\* resolution through its AuthManager
EngineSucceeded ==
  \/ last'.op \in {"exchange_code", "refresh_tokens"} /\ last'.exc = None
  \/ last'.op = "credentials" /\ last'.posts = 1 /\ last'.msg = <<>>
  \/ /\ last'.op = "request"
     /\ last'.arg[1].am
     /\ \E i \in 1..Len(last'.chains) :
          /\ last'.chains[i].force_refresh
          /\ last'.chains[i].consulted[1].yielded # "raise"

\* what the handle's lifecycle says of one step, given the calls `setters`
\* that may install a handle where there was none: the handle appears only
\* in such a call; an exchange_code or refresh_tokens that returns leaves the
\* handle equal to the credentials of the record it returned and of nothing
\* else; a clear() that returns, on whichever engine, leaves it absent
HandleLifecycle(setters) ==
  /\ (CREDENTIALS = Nothing /\ CREDENTIALS' # Nothing => setters)
  /\ (last'.op \in {"exchange_code", "refresh_tokens"} /\ last'.exc = None =>
        /\ CREDENTIALS' = Some(create_credentials(last'.ret[1]))
        /\ CREDENTIALS' = credentials'
        /\ aliased')
  /\ (last'.op \in {"clear", "clear_other"} /\ last'.exc = None =>
        CREDENTIALS' = Nothing)

EngineRefreshFails ==
  \/ ~has_refresh_token(State)
  \/ last'.arg[1].resp1.status # 200
  \/ last'.arg[1].resp1.access_token = None
  \/ last'.arg[1].outcome1 # "ok"

\* C14: when a client with an explicit AuthManager resolves a token with
\* force_refresh and the engine's refresh fails, the resolution fails with
\* the engine's TokenRefreshError after consulting the engine alone: neither
\* tokentoss.CREDENTIALS nor the token file is tried, whatever they hold.
C14_EngineFailureNotMasked ==
  [][ /\ last'.op = "request"
      /\ last'.arg[1].am
      /\ Len(last'.chains) = 2
      /\ EngineRefreshFails
      => /\ last'.chains[2].force_refresh
         /\ last'.chains[2].exc = "TokenRefreshError"
         /\ last'.chains[2].token = None
         /\ Len(last'.chains[2].consulted) = 1
         /\ last'.chains[2].consulted[1] =
              [source |-> "auth_manager", yielded |-> "raise"]
         /\ Len(last'.sent) = 1 ]_vars

\* a forced resolution through the engine has just failed while the handle
\* held an ID token and the token file an unexpired record with one
C14_Witness ==
  /\ last.op = "request"
  /\ last.arg[1].am
  /\ Len(last.chains) = 2
  /\ last.chains[2].exc = "TokenRefreshError"
  /\ CREDENTIALS # Nothing
  /\ Truthy(CREDENTIALS[1].id_token)
  /\ storage # Nothing
  /\ ~is_expired(storage[1], now)
  /\ Truthy(storage[1].id_token)

\* the handle is the credentials object an engine built from its record,
\* untouched since, and that record's expiry has passed
HandleFromExpiredRecord ==
  /\ aliased
  /\ token_data # Nothing
  /\ CREDENTIALS = Some(create_credentials(token_data[1]))
  /\ is_expired(token_data[1], now)

\* what source 2 does in the request logged in last', made by a client
\* without an AuthManager while the handle is present, given whether the
\* handle's token counts as expired: the first resolution POSTs a refresh
\* exactly when it does, the forced resolution always; a token that is not
\* expired is sent as it is and the handle is left alone
HandleAsSource(expired) ==
  /\ last'.op = "request"
  /\ ~last'.arg[1].am
  /\ Len(last'.chains) >= 1
  /\ CREDENTIALS # Nothing
  => /\ last'.posts = (IF expired THEN 1 ELSE 0)
                      + (IF Len(last'.chains) = 2 THEN 1 ELSE 0)
     /\ (~expired /\ Truthy(CREDENTIALS[1].id_token) =>
           /\ last'.sent[1] = CREDENTIALS[1].id_token
           /\ (Len(last'.chains) = 1 => CREDENTIALS' = CREDENTIALS))

\* C15: with the handle present, a resolution refreshes the handle before
\* returning its ID token exactly when force_refresh is set or the handle's
\* token is expired, a handle built from a record whose expiry has passed
\* included; otherwise the handle's ID token is returned as it is, with no
\* refresh.
C15_HandleRefreshedWhenExpired ==
  [][HandleAsSource(\/ creds_expired(CREDENTIALS[1], now)
                    \/ HandleFromExpiredRecord)]_vars

\* the last token resolution of the request the log is about
LastChain == last.chains[Len(last.chains)]

\* the token file holds a record that parses, has not expired and carries
\* an ID token
StoredTokenUsable ==
  /\ ~fileBad
  /\ storage # Nothing
  /\ ~is_expired(storage[1], now)
  /\ storage[1].id_token # ""

\* C16: whenever a resolution reaches the token file, that source raises
\* nothing; it yields the stored ID token when the file holds an unexpired
\* record with a non-empty ID token, and nothing in every other case
\* (missing file, unreadable file, expired record, empty id_token), in which
\* the resolution ends in NoCredentialsError.  It never refreshes: a client
\* without an AuthManager, with no handle set, causes no POST to the token
\* endpoint.
C16_StorageSource ==
  last.op = "request" /\ Len(last.chains) >= 1 =>
    /\ Len(LastChain.consulted) = 3 =>
         /\ LastChain.consulted[3].source = "storage"
         /\ LastChain.consulted[3].yielded =
              (IF StoredTokenUsable THEN storage[1].id_token ELSE None)
         /\ IF StoredTokenUsable
              THEN /\ LastChain.exc = None
                   /\ LastChain.token = storage[1].id_token
                   /\ last.sent[Len(last.sent)] = storage[1].id_token
              ELSE /\ LastChain.exc = "NoCredentialsError"
                   /\ last.exc = IF Len(last.chains) = 1
                                   THEN "NoCredentialsError" ELSE None
    /\ (~last.arg[1].am /\ CREDENTIALS = Nothing => last.posts = 0)

\* a resolution has just ended in NoCredentialsError at the token file,
\* which holds a record whose expiry has passed
C16_Witness ==
  /\ last.op = "request"
  /\ Len(last.chains) >= 1
  /\ Len(LastChain.consulted) = 3
  /\ LastChain.exc = "NoCredentialsError"
  /\ ~fileBad
  /\ storage # Nothing
  /\ is_expired(storage[1], now)
  /\ storage[1].id_token # ""

C18_RelativePathNeedsBaseUrl ==
  [][ last'.op = "request" =>
        /\ (last'.arg[1].path = "/api" /\ last'.arg[1].base_url = None =>
              /\ last'.exc = "ValueError"
              /\ last'.chains = <<>>
              /\ last'.sent = <<>>
              /\ last'.posts = 0
              /\ UNCHANGED <<token_data, credentials, last_error, storage,
                             fileBad, CREDENTIALS, aliased>>)
        /\ (last'.arg[1].path \in {"https://other/x", "http://other/x"} =>
              /\ last'.arg[1].url = Some(last'.arg[1].path)
              /\ last'.exc # "ValueError"
              /\ Len(last'.chains) >= 1)
        /\ (last'.arg[1].url = Nothing <=> last'.exc = "ValueError") ]_vars

\* a relative path has just been refused on a client without a base URL,
\* in a process whose handle holds an ID token
C18_Witness ==
  /\ last.op = "request"
  /\ last.exc = "ValueError"
  /\ last.arg[1].path = "/api"
  /\ last.arg[1].base_url = None
  /\ CREDENTIALS # Nothing
  /\ Truthy(CREDENTIALS[1].id_token)

\* C19: in both store variants, load returns exactly the record last saved
\* when no clear followed that save, field for field, and nothing otherwise;
\* the store holds at most one record, and exists() is true exactly when
\* load returns a record.  For the file this is said of the states in which
\* the last save or clear returned (and of a load that can read the file).
C19_StoreHoldsLastSaved ==
  /\ Len(mem) <= 1
  /\ mem_load(mem).exc = None
  /\ mem_load(mem).ret = saved.memory
  /\ mem_exists(mem) <=> saved.memory # Nothing
  /\ saved.settled =>
       /\ Len(file) <= 1
       /\ file_load(file, TRUE).exc = None
       /\ file_load(file, TRUE).ret = saved.file
       /\ file_exists(file) <=> saved.file # Nothing

\* a record without user_email has just been saved to the file as the last
\* of MaxStoreOps operations, and the memory store holds a record too
C19_Witness ==
  /\ last.op = "file_save"
  /\ last.exc = None
  /\ calls = MaxStoreOps
  /\ saved.file # Nothing
  /\ saved.file[1].user_email = None
  /\ file_load(file, TRUE).ret = saved.file
  /\ saved.memory # Nothing

\* C20: whenever FileStorage.save has returned, the file's permission bits
\* are exactly 0o600 (384), whatever they were before.  Whenever a file
\* whose bits are broader (0o644, 0o666) has been loaded, the load emitted
\* exactly one InsecureFilePermissionsWarning, and it returned the record
\* whenever the file could be read and holds one.
C20_FilePermissions ==
  /\ (last.op = "file_save" /\ last.exc = None =>
        file # Nothing /\ file[1].mode = 384)
  /\ (last.op = "file_load" /\ file # Nothing /\ file[1].mode \in {420, 438} =>
        /\ last.warnings = 1
        /\ (/\ last.msg # <<"Failed to read token file ">>
            /\ file[1].doc # Nothing
            /\ is_dict(file[1].doc[1])
            /\ {"access_token", "id_token", "refresh_token", "expiry"}
                 \subseteq DOMAIN file[1].doc[1][2]
            => /\ last.exc = None
               /\ last.ret # Nothing
               /\ last.ret[1].access_token = file[1].doc[1][2]["access_token"][2]))

\* a world-readable file holding a record has just been loaded, with one
\* warning
C20_Witness ==
  /\ last.op = "file_load"
  /\ file # Nothing
  /\ file[1].mode = 420
  /\ last.warnings = 1
  /\ last.exc = None
  /\ last.ret # Nothing

\* the required members of a token document
RequiredFields == {"access_token", "id_token", "refresh_token", "expiry"}

\* the file holds a JSON document that lacks a required field
LacksRequiredField ==
  /\ file # Nothing
  /\ file[1].doc # Nothing
  /\ (~is_dict(file[1].doc[1])
        \/ ~(RequiredFields \subseteq DOMAIN file[1].doc[1][2]))

\* the outcomes of a load that could read the file, for the documents that
\* "lacking" holds of; the file is what the load left
LoadOutcomes(lacking) ==
  last.op = "file_load" /\ last.msg # <<"Failed to read token file ">> =>
    /\ (file = Nothing => last.exc = None /\ last.ret = Nothing)
    /\ (file # Nothing /\ file[1].doc = Nothing =>
          /\ last.exc = "StorageError"
          /\ last.msg = <<"Invalid JSON in token file ">>)
    /\ (lacking =>
          /\ last.exc = "StorageError"
          /\ last.msg = <<"Missing required field in token file: ">>)

\* C21: FileStorage.load on a missing file returns None without an error;
\* on a file that is not JSON it raises StorageError "Invalid JSON ..."; on
\* a JSON document lacking a required field it raises StorageError "Missing
\* required field ..."; and no load changes the file.
C21_LoadOutcomes ==
  /\ [](LoadOutcomes(LacksRequiredField))
  /\ [][last'.op = "file_load" /\ calls' # calls => file' = file]_vars

\* C22: is_expired is false exactly when the clock is strictly before the
\* expiry: false one second before it, true one second after it, and true
\* at the instant of the expiry itself.
C22_IsExpiredBoundary ==
  last.op = "is_expired" =>
    LET expiry == last.arg[1].expiry * TicksPerSecond IN
    /\ (last.ret = FALSE) <=> (now < expiry)
    /\ now = expiry - TicksPerSecond => last.ret = FALSE
    /\ now = expiry + TicksPerSecond => last.ret = TRUE
    /\ now = expiry => last.ret = TRUE

\* is_expired was read at the very instant of the expiry and said true
C22_Witness ==
  /\ last.op = "is_expired"
  /\ now = last.arg[1].expiry * TicksPerSecond
  /\ last.ret = TRUE

\* the descriptor file from_file was pointed at
Entry == last.arg.entry

\* the Python value v, read from a descriptor document that is a JSON
\* object, holds no registration: it has neither an "installed" nor a "web"
\* key, or the section from_file selects lacks client_id or client_secret
LacksRegistration(v) ==
  /\ v[1] = "dict"
  /\ \/ {"installed", "web"} \cap DOMAIN v[2] = {}
     \/ \E section \in {v[2][IF "installed" \in DOMAIN v[2] THEN "installed"
                             ELSE "web"]} :
          /\ section[1] = "dict"
          /\ ~({"client_id", "client_secret"} \subseteq DOMAIN section[2])

\* from_file fails with FileNotFoundError on a missing path and with an
\* error of one of the classes on a document that holds no registration,
\* for which it returns nothing
FromFileErrors(classes) ==
  last.op = "from_file" =>
    /\ Entry = Nothing => last.exc = "FileNotFoundError"
    /\ (Entry # Nothing /\ Entry[1].doc # Nothing
          /\ LacksRegistration(loads(Entry[1].doc[1])))
         => last.exc \in classes /\ last.ret = Nothing

\* C23: ClientConfig.from_file fails with FileNotFoundError when the path
\* does not exist and with a ValueError when the document has neither an
\* "installed" nor a "web" key or the selected section lacks client_id or
\* client_secret, and returns no registration for such a document.
C23_FromFileErrors == FromFileErrors({"ValueError", "JSONDecodeError"})

\* the value v under key in a section is missing or empty
MissingOrEmpty(section, key) ==
  \/ section[1] # "dict"
  \/ key \notin DOMAIN section[2]
  \/ ~py_truthy(section[2][key])

\* the input of configure has a missing or empty client_id or
\* client_secret, given directly or in every "installed"/"web" section of
\* the source file, or the source file is not JSON
InvalidInput(arg) ==
  IF arg.path = Nothing THEN
    \/ arg.client_id = Nothing
    \/ arg.client_secret = Nothing
    \/ arg.client_id[1] = <<>>
    \/ arg.client_secret[1] = <<>>
  ELSE
    /\ arg.path[1] # Nothing
    /\ \/ arg.path[1][1].doc = Nothing
       \/ \E v \in {loads(arg.path[1][1].doc[1])} :
            /\ v[1] = "dict"
            /\ {"installed", "web"} \cap DOMAIN v[2] # {}
            /\ \A k \in {"installed", "web"} \cap DOMAIN v[2] :
                 \/ MissingOrEmpty(v[2][k], "client_id")
                 \/ MissingOrEmpty(v[2][k], "client_secret")

\* C24: configure rejects with ValueError every input whose client_id or
\* client_secret is missing or empty, given directly or inside the source
\* file's "installed"/"web" section, and every source file that is not
\* JSON; when it rejects, the file at the standard location is unchanged.
C24_InstallerValidation ==
  [][ last'.op = "configure" /\ calls' # calls /\ InvalidInput(last'.arg)
        => last'.exc = "ValueError" /\ config_file' = config_file ]_vars

\* C30: in a process with a single engine, whenever the process-wide handle
\* is present, its ID token is the id_token of the engine's current record
\* and of the stored record, whatever engine operations and requests were
\* made.
C30_TokenAgreement ==
  constructed /\ ~others /\ CREDENTIALS # Nothing =>
    /\ token_data # Nothing
    /\ CREDENTIALS[1].id_token = token_data[1].id_token
    /\ storage # Nothing
    /\ CREDENTIALS[1].id_token = storage[1].id_token

\* the token file holds a record and its permissions are broader than 0600
RecordExposed ==
  /\ file # Nothing
  /\ file[1].doc # Nothing
  /\ file[1].mode # SECURE_PERMISSIONS

\* C29: save writes the record and restricts the permissions in two steps:
\* a save that returns is the write followed by the chmod, and when the
\* process dies between the two, a file that had to be created holds the
\* record with the permissions open() gave it.  While a file holding a
\* record has broader permissions than 0600, every operation other than a
\* save that returns leaves it so or removes the file; a load of it warns.
C29_SaveNotTransactional ==
  /\ [](/\ \A td \in StoreRecords : \A newmode \in NewFileModes :
             file_save(file, td, "ok", newmode).store
               = file_chmod(file_write(file, td, newmode))
        /\ (last.op = "file_save_killed" /\ last.arg.created =>
              /\ file = Some(File(Some(json_dump(to_dict(last.arg.tokens))),
                                  last.arg.newmode))
              /\ file_load(file, TRUE).ret = Some(last.arg.tokens))
        /\ (last.op = "file_load" /\ RecordExposed => last.warnings = 1))
  /\ [][ RecordExposed /\ ~(last'.op = "file_save" /\ last'.exc = None)
           => \/ file' = Nothing
              \/ file' # Nothing /\ file'[1].mode = file[1].mode ]_vars

\* a process has just died while saving to a file that did not exist,
\* after an earlier operation: the new file holds the record and is
\* world-readable (0644)
C29_Witness ==
  /\ last.op = "file_save_killed"
  /\ last.arg.created
  /\ calls > 1
  /\ RecordExposed
  /\ file[1].mode = 420

(* ---- C25: a code that comes with another state than the one issued ---- *)
\* the state value differs from the one the latest prepare_auth issued
\* (0: no state value came with the code)
Mismatch(state, issued) == state # 0 /\ state # issued

\* the check_callback message of the log found a callback received that
\* brought the widget a code and no error
CallbackWithCode ==
  /\ last.op = "check_callback"
  /\ last.arg.seen.callback_received
  /\ Truthy(last.arg.seen.auth_code)
  /\ ~Truthy(last.arg.seen.error)

\* the step rejects the code: no exchange_code call, 'Invalid state'
\* reported, the verifier discarded, the widget and the engine no more
\* authenticated than before
RejectsCode ==
  /\ exchanges' = exchanges
  /\ widget'[1].error = <<"Invalid state - possible CSRF attack">>
  /\ widget'[1].status = <<"Authentication failed">>
  /\ widget'[1].code_verifier = 0
  /\ widget'[1].is_authenticated = widget[1].is_authenticated
  /\ credentials' = credentials
  /\ token_data' = token_data
  /\ storage' = storage

NoCallback(q) == ~Truthy(q.code) /\ ~Truthy(q.error)

\* C26: a GET to the callback server that carries neither a 'code' nor an
\* 'error' query parameter (such as /favicon.ico) is not treated as a
\* callback: when its handler is done, what check_callback() returns (the
\* server's callback_received) and the server's auth_code and error are what
\* they were before
C26_IgnoresNonCallback ==
  [][ (last'.op = "do_GET" /\ NoCallback(last'.arg))
        => /\ httpd'[1].callback_received = httpd[1].callback_received
           /\ httpd'[1].auth_code = httpd[1].auth_code
           /\ httpd'[1].error = httpd[1].error ]_vars

(* ---- C27: the life of a PKCE verifier ---- *)
\* the step called exchange_code once, with the verifier the widget held
ExchangedWithHeld ==
  /\ Len(exchanges') = Len(exchanges) + 1
  /\ SubSeq(exchanges', 1, Len(exchanges)) = exchanges
  /\ widget[1].code_verifier # 0
  /\ exchanges'[Len(exchanges')].code_verifier = widget[1].code_verifier

\* the step handled a code that passed the state test: a paste, or a
\* check_callback message that found a callback with a code and no error
CodeAccepted ==
  \/ /\ last'.op = "paste"
     /\ ~Mismatch(last'.arg.received_state, widget[1].state)
  \/ /\ CallbackWithCode'
     /\ ~Mismatch(last'.arg.seen.state, widget[1].state)

\* the step handled a callback or a code without exchanging it: an error
\* callback, a callback without code, a code with another state
CallbackRejected ==
  \/ /\ last'.op = "check_callback"
     /\ last'.arg.seen.callback_received
     /\ ~CallbackWithCode'
  \/ /\ CallbackWithCode'
     /\ Mismatch(last'.arg.seen.state, widget[1].state)
  \/ /\ last'.op = "paste"
     /\ Mismatch(last'.arg.received_state, widget[1].state)

\* C27: each verifier generated by prepare_auth is passed to exchange_code at
\* most once.  The widget discards it after any exchange, successful or
\* failed, on a sign-out that returns and on a rejected callback; a second
\* prepare_auth replaces the verifier held by one never held nor used
\* before; a code handled while no verifier is held is not exchanged (the
\* widget reports 'No code verifier'), and every exchange is made with the
\* verifier held
C27_VerifierLifecycle ==
  /\ [](\A m, n \in 1 .. Len(exchanges) :
          exchanges[m].code_verifier = exchanges[n].code_verifier => m = n)
  /\ [][ /\ exchanges' # exchanges
            => ExchangedWithHeld /\ widget'[1].code_verifier = 0
         /\ (last'.op = "sign_out" /\ last'.exc = None)
            => widget'[1].code_verifier = 0 /\ exchanges' = exchanges
         /\ CallbackRejected
            => widget'[1].code_verifier = 0 /\ exchanges' = exchanges
         /\ last'.op = "prepare_auth"
            => /\ widget'[1].code_verifier # 0
               /\ widget'[1].code_verifier # widget[1].code_verifier
               /\ widget'[1].code_verifier > widget[1].issued
               /\ \A n \in 1 .. Len(exchanges) :
                    exchanges[n].code_verifier # widget'[1].code_verifier
               /\ exchanges' = exchanges
         /\ (CodeAccepted /\ widget[1].code_verifier = 0)
            => /\ exchanges' = exchanges
               /\ widget'[1].error =
                    <<"No code verifier - please try signing in again">>
               /\ widget'[1].code_verifier = 0
         /\ (CodeAccepted /\ widget[1].code_verifier # 0)
            => ExchangedWithHeld ]_vars

\* a second prepare_auth replaced a verifier that was never used, the second
\* verifier was exchanged (the exchange failed) and is gone, and a code that
\* came next was not exchanged
C27_Witness ==
  /\ Len(exchanges) = 1
  /\ exchanges[1].code_verifier = 2
  /\ widget[1].issued = 2
  /\ widget[1].code_verifier = 0
  /\ ~widget[1].is_authenticated
  /\ last.op = "paste"
  /\ widget[1].error = <<"No code verifier - please try signing in again">>

(* ---- C28: signing in, signing out, signing in again ---- *)
\* the widget w shows the user `email` signed in
ShowsSignedIn(w, email) ==
  /\ w.is_authenticated
  /\ w.user_email = email
  /\ w.status = <<"Signed in as ", email>>
  /\ w.error = <<>>
  /\ ~w.show_manual_input

\* the engine holds credentials and a record, and the store holds the record
EngineSignedIn ==
  /\ credentials # Nothing
  /\ token_data # Nothing
  /\ storage = token_data

\* the widget shows nobody signed in and the engine and the store are empty
SignedOut ==
  /\ ~widget[1].is_authenticated
  /\ widget[1].user_email = ""
  /\ widget[1].status = <<"Click to sign in">>
  /\ widget[1].error = <<>>
  /\ credentials = Nothing
  /\ token_data = Nothing
  /\ storage = Nothing
  /\ ~fileBad

\* the step exchanged a code that came with the issued state (or, pasted,
\* with no other state) for the verifier of the latest prepare_auth, and
\* exchange_code returned: the provider answered with tokens and they were
\* saved
AcceptedExchange ==
  /\ CodeAccepted
  /\ widget[1].code_verifier # 0
  /\ last'.arg.resp.status = 200
  /\ last'.arg.outcome = "ok"

\* the step made an exchange_code call that raised
FailedExchange ==
  /\ exchanges' # exchanges
  /\ ~exchanges'[Len(exchanges')].returned

\* C28: prepare_auth followed by a callback carrying a code and the issued
\* state, a check_callback message and an exchange the provider accepts
\* leaves the widget authenticated with the user's email, an empty error and
\* the manual input hidden; a sign_out that returns leaves the widget
\* unauthenticated with an empty email, status 'Click to sign in' and the
\* store empty, and the same sequence then authenticates again, as the user
\* the provider names; a failed exchange leaves a signed-out widget
\* unauthenticated with the error shown, and a later attempt still succeeds
C28_SignInFlow ==
  [][ /\ AcceptedExchange
         => /\ ShowsSignedIn(widget'[1], EmailClaim(last'.arg.resp.id_token))
            /\ EngineSignedIn'
            /\ exchanges'[Len(exchanges')].returned
      /\ (last'.op = "sign_out" /\ last'.exc = None) => SignedOut'
      /\ FailedExchange
         => /\ widget'[1].is_authenticated = widget[1].is_authenticated
            /\ widget'[1].user_email = widget[1].user_email
            /\ widget'[1].error # <<>>
            /\ widget'[1].status = <<"Authentication failed">> ]_vars

\* a first exchange failed and left the widget signed out with the error
\* shown; after a second prepare_auth the callback server received a code
\* with the issued state, the check_callback message exchanged it and the
\* widget shows bob signed in
C28_Witness ==
  /\ Len(exchanges) = 2
  /\ ~exchanges[1].returned
  /\ exchanges[2].returned
  /\ exchanges[2].redirect_uri = <<"http://127.0.0.1:", Port>>
  /\ CallbackWithCode
  /\ last.arg.served = Some(Query("c1", widget[1].state, None))
  /\ last.arg.seen.state = widget[1].state
  /\ widget[1].state = 2
  /\ ShowsSignedIn(widget[1], "bob@example.com")
  /\ EngineSignedIn

(* ---- C31: an exchange that fails ---- *)
\* C31: exchange_code is all-or-nothing: if it raises TokenExchangeError for
\* any cause (provider rejection, transport error, malformed response, or a
\* failure of store.save), the engine's in-memory record, is_authenticated,
\* the store and the process-wide handle are exactly as they were before the
\* call
C31_ExchangeAllOrNothing ==
  [][ (last'.op = "exchange_code" /\ last'.exc = "TokenExchangeError")
        => /\ token_data' = token_data
           /\ is_authenticated(State)' = is_authenticated(State)
           /\ storage' = storage
           /\ fileBad' = fileBad
           /\ CREDENTIALS' = CREDENTIALS ]_vars

(* ---- C32: which codes are exchanged ---- *)
\* the state value is the (non-empty) one the latest prepare_auth issued
IssuedState(state, issued) == state # 0 /\ state = issued

\* C32: the widget calls exchange_code only if the state value that
\* accompanied the code (the one check_callback copied, or the received_state
\* of a paste) equals the state issued by the most recent prepare_auth; a
\* code that arrives with no state at all (a callback without a state
\* parameter, a pasted raw code) is not exchanged
C32_ExchangeOnlyIssuedState ==
  [][ exchanges' # exchanges
        => \/ /\ CallbackWithCode'
              /\ IssuedState(last'.arg.seen.state, widget[1].state)
           \/ /\ last'.op = "paste"
              /\ IssuedState(last'.arg.received_state, widget[1].state) ]_vars

(* ---- C33: the handler thread and the polling thread ---- *)
\* the step is a check_callback that began while the handler of a request
\* carrying a code had not yet set callback_received (no earlier request is
\* recorded) and that returned True
PolledDuringCallback ==
  /\ last'.op = "check_callback"
  /\ httpd # Nothing
  /\ ~httpd[1].callback_received
  /\ httpd[1].request # Nothing
  /\ Truthy(httpd[1].request[1].code)
  /\ last'.arg.seen.callback_received

\* C33: no torn reads between the handler thread and the poller: under every
\* interleaving of do_GET's writes (auth_code, state, error,
\* callback_received) with check_callback's reads, whenever check_callback
\* returns True for a callback that carried a code, the auth_code and state
\* it copied are those of that callback, never the earlier None values
C33_NoTornReads ==
  [][ PolledDuringCallback
        => /\ last'.arg.seen.auth_code = httpd[1].request[1].code
           /\ last'.arg.seen.state = httpd[1].request[1].state ]_vars

(* ---- C34: a request that follows the callback ---- *)
\* the server has recorded a redirect carrying a code or an error, and the
\* handler of a later request has yet to write
RecordedCallback ==
  /\ httpd # Nothing
  /\ httpd[1].callback_received
  /\ Truthy(httpd[1].auth_code) \/ Truthy(httpd[1].error)
  /\ httpd[1].written = 0

\* C34: first callback wins: once the callback server has recorded a redirect
\* carrying a code (or an error), the recorded auth_code, state and error
\* stay as recorded until reset() or stop(); the handler of a later GET that
\* comes before the widget polls does not overwrite or erase them
C34_FirstCallbackWins ==
  [][ (RecordedCallback /\ last'.op = "do_GET")
        => /\ httpd'[1].auth_code = httpd[1].auth_code
           /\ httpd'[1].state = httpd[1].state
           /\ httpd'[1].error = httpd[1].error ]_vars

(* ---- C35: a forced resolution through an engine without record ---- *)
\* the request logged in last' was made by a client with an explicit
\* AuthManager that held no record; its first, unforced resolution obtained
\* a token (from the handle or from the token file), and the 401 answer led
\* to a forced resolution
FallbackThenForced ==
  /\ last'.op = "request"
  /\ last'.arg[1].am
  /\ token_data = Nothing
  /\ Len(last'.chains) = 2
  /\ last'.chains[1].exc = None
  /\ last'.chains[2].force_refresh

\* C35: an explicit engine that holds no record behaves as a source that
\* yields nothing: whenever the unforced resolution obtains a token from
\* source 2 or source 3, the forced resolution in the same state does not
\* fail at source 1
C35_EmptyEngineYieldsNothing ==
  [][ FallbackThenForced
        => /\ last'.chains[2].consulted[1] =
                [source |-> "auth_manager", yielded |-> None]
           /\ last'.chains[2].exc # "TokenRefreshError" ]_vars

(* ---- C36: a 401 when the token file is the only source ---- *)
\* the request logged in last' was made by a client without AuthManager
\* while the handle was absent and the token file held an unexpired record
\* with an ID token; it was sent and answered 401
FileOnly401 ==
  /\ last'.op = "request"
  /\ ~last'.arg[1].am
  /\ CREDENTIALS = Nothing
  /\ load(State) # "raise"
  /\ storage # Nothing
  /\ ~is_expired(storage[1], now)
  /\ Truthy(storage[1].id_token)
  /\ last'.sent # <<>>
  /\ last'.arg[1].status1 = 401

\* C36: when the token file is the only source (no engine, handle absent) and
\* holds an unexpired record, a 401 leads to exactly one retry whose bearer
\* token is identical to the first attempt's (the forced resolution reads the
\* same record again); the client neither raises nor skips the retry, and
\* the stored record is unchanged
C36_FileOnlyRetrySameToken ==
  [][ FileOnly401
        => /\ last'.sent = <<storage[1].id_token, storage[1].id_token>>
           /\ Len(last'.chains) = 2
           /\ last'.chains[2].force_refresh
           /\ last'.chains[2].exc = None
           /\ last'.chains[2].consulted[3] =
                [source |-> "storage", yielded |-> storage[1].id_token]
           /\ last'.exc = None
           /\ last'.posts = 0
           /\ last'.ret = IF last'.arg[1].status2 = 0
                            THEN Some(Response(1, 401))
                            ELSE Some(Response(2, last'.arg[1].status2))
           /\ storage' = storage
           /\ fileBad' = fileBad
           /\ CREDENTIALS' = Nothing ]_vars

\* a client without engine and without handle has sent the stored ID token
\* twice: the first attempt was answered 401, the retry 200
C36_Witness ==
  /\ last.op = "request"
  /\ ~last.arg[1].am
  /\ CREDENTIALS = Nothing
  /\ storage # Nothing
  /\ last.sent = <<storage[1].id_token, storage[1].id_token>>
  /\ last.arg[1].status1 = 401
  /\ last.ret = Some(Response(2, 200))
  /\ last.chains[2].consulted[3].source = "storage"

(* ---- C37: what the installer accepts, the loader loads ---- *)
\* the section of the document doc that configure_from_file validates
ValidatedSection(doc) ==
  IF py_truthy(py_get(doc, "installed")) THEN py_get(doc, "installed")
  ELSE py_get(doc, "web")

\* C37: every descriptor that configure_from_file accepts and installs is
\* afterwards loadable by ClientConfig.from_file at the standard location,
\* which reads client_id and client_secret from the same section that the
\* installer validated (also for documents with both an 'installed' and a
\* 'web' section, or with an empty 'installed' section)
C37_InstalledIsLoadable ==
  [][ (/\ last'.op = "configure"
       /\ last'.arg.path # Nothing
       /\ last'.exc = None)
        => /\ from_file(config_file').exc = None
           /\ from_file(config_file').ret =
                Some([client_id |->
                        ValidatedSection(loads(config_file'[1].doc[1]))[2]["client_id"],
                      client_secret |->
                        ValidatedSection(loads(config_file'[1].doc[1]))[2]["client_secret"]])
    ]_vars

(* ---- C38: the redirect URI of an attempt ---- *)
\* the redirect URI that the front end and the paste path would use now
CurrentRedirect ==
  IF widget[1].server_available THEN redirect_uri(widget[1].cs)
  ELSE <<"http://localhost">>

\* C38: the redirect_uri passed to exchange_code equals the redirect_uri
\* embedded in the authorization URL built by the prepare_auth that
\* generated the verifier in use: while a verifier is held the callback
\* server is the one that authorization URL names (it is never stopped or
\* restarted), and every exchange_code call is made with that redirect_uri
C38_RedirectUriOfAttempt ==
  /\ [](widget[1].code_verifier # 0
          => /\ widget[1].auth_url # Nothing
             /\ widget[1].auth_url[1].redirect_uri = CurrentRedirect
             /\ widget[1].auth_url[1].code_challenge
                  = code_challenge(widget[1].code_verifier))
  /\ [][ /\ exchanges' # exchanges
            => /\ widget[1].auth_url # Nothing
               /\ exchanges'[Len(exchanges')].redirect_uri
                    = widget[1].auth_url[1].redirect_uri
               /\ code_challenge(exchanges'[Len(exchanges')].code_verifier)
                    = widget[1].auth_url[1].code_challenge
         /\ (widget[1].code_verifier # 0 /\ widget'[1].code_verifier # 0
             /\ last'.op # "prepare_auth")
            => /\ widget'[1].cs.port = widget[1].cs.port
               /\ widget'[1].server_available = widget[1].server_available
               /\ (httpd = Nothing) = (httpd' = Nothing) ]_vars

\* a first attempt was exchanged with the first server's redirect URI, the
\* server was replaced by one on another port, and the second attempt was
\* exchanged with the second server's redirect URI
C38_Witness ==
  /\ Len(exchanges) = 2
  /\ exchanges[1].redirect_uri = <<"http://127.0.0.1:", Port>>
  /\ exchanges[2].redirect_uri = <<"http://127.0.0.1:", Port + 1>>
  /\ exchanges[2].code_verifier = 2

(* ---- C39: a received_state left over from an earlier attempt ---- *)
\* the step handles a raw code (pasted with no state) while the verifier of
\* the latest prepare_auth is held: nothing submitted since that
\* prepare_auth has been judged, so the received_state the widget holds, if
\* any, was set during an earlier attempt
RawCodeInNewAttempt ==
  /\ last'.op = "paste"
  /\ last'.arg.pasted = Nothing
  /\ widget[1].code_verifier # 0

\* C39: a received_state left over from an earlier attempt never causes the
\* code of a later attempt to be rejected: after a new prepare_auth, a code
\* submitted without any state is judged only against the inputs of the new
\* attempt (it is not rejected as carrying an invalid state, and the
\* attempt's verifier is not discarded unused)
C39_StaleReceivedStateHarmless ==
  [][ RawCodeInNewAttempt
        => /\ widget'[1].error # <<"Invalid state - possible CSRF attack">>
           /\ ExchangedWithHeld ]_vars

(* ---- C40: the credentials object and the token record ---- *)
\* C40: after any sequence of AuthManager operations (construction,
\* exchange_code, refresh_tokens, credentials access, clear), whether they
\* return or raise, the engine's credentials object and its token record are
\* both present or both absent
C40_CredentialsPairedWithRecord ==
  (credentials = Nothing) <=> (token_data = Nothing)

\* a refresh_tokens call has raised after the token endpoint answered: the
\* new record could not be saved, and the engine holds the new record and
\* credentials made from it
C40_Witness ==
  /\ last.op = "refresh_tokens"
  /\ last.exc = "TokenRefreshError"
  /\ last.posts = 1
  /\ credentials # Nothing
  /\ token_data # Nothing
  /\ credentials = Some(create_credentials(token_data[1]))
  /\ storage # token_data

====
